---- MODULE Spec2Model ----
(***************************************************************************)
(* Model of the OAI RAN UE K8s operator charm (src/src/charm.py) with its  *)
(* collaborators: the configuration validator (src/src/charm_config.py),   *)
(* the StatefulSet patchers (src/src/k8s.py) and the requirer side of the   *)
(* fiveg_rfsim relation library.                                            *)
(*                                                                         *)
(* Conventions.  A Python Optional[int] is the empty tuple (None) or a      *)
(* one-element tuple <<v>>.  A relation data bag is a function from the     *)
(* keys that are present to their values; a value is a string, held as a    *)
(* tuple of one-character strings so that int(...) is computed digit by     *)
(* digit.  A file is a record [exists, content].                            *)
(***************************************************************************)
EXTENDS Integers, Sequences, FiniteSets, TLC

VARIABLES
    leader,        \* self.unit.is_leader()
    config,        \* charm.config (the Juju configuration of the application)
    can_connect,   \* self._container.can_connect()
    pod_ip,        \* output of `unit-get private-address` ("" when not assigned)
    storage,       \* self._container.exists("/tmp/conf")
    statefulset,   \* the StatefulSet object held by the Kubernetes API
    relation,      \* the fiveg_rfsim relation: [created, data, local_app_data]
                   \* (data = remote app data bag, local_app_data = this app's data bag)
    config_file,   \* /tmp/conf/ue.conf in the workload container
    plan,          \* services of the Pebble plan of the container
    passes,        \* number of reconciliation passes run since the last input change
    fired,         \* the mutating calls issued by the latest of these passes, in order
    unit_status,   \* status added by the latest collect-status run (NoStatus once the inputs changed)
    workload_version_file,  \* /etc/workload-version in the workload container
    workload_version,       \* the version the latest collect-status run set (Unset when it set none)
    returned,      \* outcome of the latest direct call of a method of K8sPrivileged,
                   \* K8sUSBVolume or the relation library, or of the latest ping action
    provider_relations  \* on a providing charm: the application data bag it holds in
                        \* each of its relations (none for this charm, which requires)

vars == <<leader, config, can_connect, pod_ip, storage, statefulset, relation,
          config_file, plan, passes, fired, unit_status, workload_version_file,
          workload_version, returned, provider_relations>>

(***************************************************************************)
(* Bounds                                                                  *)
(***************************************************************************)
MaxPasses == 2

(***************************************************************************)
(* Python helpers                                                          *)
(***************************************************************************)
None == << >>

Some(v) == <<v>>

\* bool(x) of an Optional[int]: None and 0 are falsy
Truthy(o) == o /= None /\ o[1] /= 0

Digits == {"0", "1", "2", "3", "4", "5", "6", "7", "8", "9"}

DigitVal(c) ==
    CASE c = "0" -> 0 [] c = "1" -> 1 [] c = "2" -> 2 [] c = "3" -> 3 [] c = "4" -> 4
      [] c = "5" -> 5 [] c = "6" -> 6 [] c = "7" -> 7 [] c = "8" -> 8 [] c = "9" -> 9

RECURSIVE DecimalValue(_)
DecimalValue(s) ==
    IF s = << >> THEN 0
    ELSE 10 * DecimalValue(SubSeq(s, 1, Len(s) - 1)) + DigitVal(s[Len(s)])

\* int(s) for a str s: None stands for the ValueError raised on "" or on a non-digit
ParseInt(s) ==
    IF s /= << >> /\ \A i \in 1..Len(s) : s[i] \in Digits
    THEN Some(DecimalValue(s))
    ELSE None

RECURSIVE Join(_)
\* "".join(chars): the Python str of a tuple of characters
Join(s) == IF s = << >> THEN "" ELSE s[1] \o Join(Tail(s))

RECURSIVE JoinWith(_, _)
\* sep.join(parts)
JoinWith(sep, parts) ==
    IF parts = << >> THEN ""
    ELSE IF Len(parts) = 1 THEN parts[1]
    ELSE parts[1] \o sep \o JoinWith(sep, Tail(parts))

\* dict.get(key, default)
Get(d, k, default) == IF k \in DOMAIN d THEN d[k] ELSE default

HexDigit(n) ==
    CASE n < 10 -> ToString(n)
      [] n = 10 -> "a" [] n = 11 -> "b" [] n = 12 -> "c"
      [] n = 13 -> "d" [] n = 14 -> "e" [] n = 15 -> "f"

RECURSIVE HexDigits(_)
HexDigits(n) == IF n < 16 THEN HexDigit(n) ELSE HexDigits(n \div 16) \o HexDigit(n % 16)

\* the character of a digit 0..9
DigitChar(d) == <<"0", "1", "2", "3", "4", "5", "6", "7", "8", "9">>[d + 1]

StrInt_LastDigit(n) == <<DigitChar(n % 10)>>

RECURSIVE StrInt(_)
\* str(n) of an int, as a tuple of characters
StrInt(n) ==
    IF n < 0 THEN <<"-">> \o StrInt(0 - n)
    ELSE IF n < 10 THEN <<DigitChar(n)>>
    ELSE StrInt(n \div 10) \o <<DigitChar(n % 10)>>

\* dict.update(other)
Update(d, other) ==
    [k \in DOMAIN d \cup DOMAIN other |-> IF k \in DOMAIN other THEN other[k] ELSE d[k]]

\* str(x) of an Optional[int]
StrOpt(o) == IF o = None THEN "None" ELSE ToString(o[1])

(***************************************************************************)
(* charm_config.py: validation of the charm configuration                  *)
(***************************************************************************)
IMSI_MIN_LENGTH == 14

IMSI_MAX_LENGTH == 15

KEY_LENGTH == 32

SST_MIN == 1

SST_MAX == 4

SD_MAX == 16777215

\* validate_sd: the decimal representation has an even number of digits
validate_sd(value) == Len(ToString(value)) % 2 = 0

\* UEConfig: the names of the fields that fail validation
InvalidFields(c) ==
    {f \in {"imsi"} : ~(Len(c.imsi) >= IMSI_MIN_LENGTH /\ Len(c.imsi) <= IMSI_MAX_LENGTH)}
    \cup {f \in {"key"} : Len(c.key) /= KEY_LENGTH}
    \cup {f \in {"opc"} : Len(c.opc) /= KEY_LENGTH}
    \cup {f \in {"dnn"} : Len(c.dnn) < 1}
    \cup {f \in {"sst"} : c.sst = None \/ ~(c.sst[1] >= SST_MIN /\ c.sst[1] <= SST_MAX)}
    \cup {f \in {"sd"} : c.sd /= None
                          /\ ~(validate_sd(c.sd[1]) /\ c.sd[1] >= 0 /\ c.sd[1] <= SD_MAX)}

\* the field names in the order UEConfig declares them
SortedFieldNames_DeclarationOrder == <<"imsi", "key", "opc", "dnn", "sst", "sd">>

\* the field names in the order error_fields.sort() leaves them
SortedFieldNames == <<"dnn", "imsi", "key", "opc", "sd", "sst">>

Quote(f) == "'" \o f \o "'"

RECURSIVE QuoteAll(_)
QuoteAll(fs) == IF fs = << >> THEN << >> ELSE <<Quote(Head(fs))>> \o QuoteAll(Tail(fs))

\* the message of CharmConfigInvalidError
InvalidConfigMessage(c) ==
    LET bad(f) == f \in InvalidFields(c)
        error_fields == SelectSeq(SortedFieldNames, bad)
    IN "The following configurations are not valid: ["
           \o JoinWith(", ", QuoteAll(error_fields)) \o "]"

\* CharmConfig.from_charm: [ok |-> TRUE, ...fields] or [ok |-> FALSE, msg]
from_charm(c) ==
    IF InvalidFields(c) = {}
    THEN [ok |-> TRUE, imsi |-> c.imsi, key |-> c.key, opc |-> c.opc, dnn |-> c.dnn,
          sst |-> c.sst, sd |-> IF c.sd = None THEN Some(102030) ELSE c.sd, msg |-> ""]
    ELSE [ok |-> FALSE, imsi |-> "", key |-> "", opc |-> "", dnn |-> "",
          sst |-> None, sd |-> None, msg |-> InvalidConfigMessage(c)]

(***************************************************************************)
(* fiveg_rfsim.py: requirer side of the relation                           *)
(***************************************************************************)
LIBAPI == 0

SST_RELATION_MAX == 255

DL_FREQ_MIN == 410000000

CARRIER_BANDWIDTH_MIN == 11

CARRIER_BANDWIDTH_MAX == 273

NUMEROLOGY_MAX == 6

RECURSIVE SplitDots(_, _, _)
\* s.split("."): acc holds the finished parts, cur the part being read
SplitDots(s, acc, cur) ==
    IF s = << >> THEN Append(acc, cur)
    ELSE IF Head(s) = "." THEN SplitDots(Tail(s), Append(acc, cur), << >>)
    ELSE SplitDots(Tail(s), acc, Append(cur, Head(s)))

\* IPvAnyAddress accepts the value (IPv4 dotted quads only are modelled)
IsIPAddress(s) ==
    LET parts == SplitDots(s, << >>, << >>)
        octet(p) == /\ Len(p) >= 1 /\ Len(p) <= 3
                    /\ ParseInt(p) /= None
                    /\ (Len(p) > 1 => p[1] /= "0")
                    /\ ParseInt(p)[1] <= 255
    IN Len(parts) = 4 /\ \A i \in 1..4 : octet(parts[i])

NoInfo ==
    [ok |-> FALSE, version |-> None, rfsim_address |-> << >>, sst |-> None, sd |-> None,
     band |-> None, dl_freq |-> None, carrier_bandwidth |-> None, numerology |-> None,
     start_subcarrier |-> None]

ProviderAppDataValid_NoUpperBounds(r) ==
    /\ r.version /= None /\ r.version[1] >= 0
    /\ r.has_address /\ IsIPAddress(r.rfsim_address)
    /\ r.sst[1] >= 0
    /\ (r.sd /= None => r.sd[1] >= 0)
    /\ r.band[1] > 0
    /\ r.dl_freq[1] >= DL_FREQ_MIN
    /\ r.carrier_bandwidth[1] >= CARRIER_BANDWIDTH_MIN
    /\ r.numerology[1] >= 0
    /\ r.start_subcarrier[1] >= 0

\* ProviderAppData(**data) succeeds on the record r read from the data bag
ProviderAppDataValid(r) ==
    /\ r.version /= None /\ r.version[1] >= 0
    /\ r.has_address /\ IsIPAddress(r.rfsim_address)
    /\ r.sst[1] >= 0 /\ r.sst[1] <= SST_RELATION_MAX
    /\ (r.sd /= None => r.sd[1] >= 0 /\ r.sd[1] <= SD_MAX)
    /\ r.band[1] > 0
    /\ r.dl_freq[1] >= DL_FREQ_MIN
    /\ r.carrier_bandwidth[1] >= CARRIER_BANDWIDTH_MIN
    /\ r.carrier_bandwidth[1] <= CARRIER_BANDWIDTH_MAX
    /\ r.numerology[1] >= 0 /\ r.numerology[1] <= NUMEROLOGY_MAX
    /\ r.start_subcarrier[1] >= 0

\* RFSIMRequires._get_provider_interface_version
_get_provider_interface_version(rel) ==
    IF ~rel.created THEN None
    ELSE ParseInt(Get(rel.data, "version", << >>))

\* RFSIMRequires.get_provider_rfsim_information: the record read, or NoInfo (None)
get_provider_rfsim_information(rel) ==
    IF ~rel.created THEN NoInfo
    ELSE
      LET d == rel.data
          int(k) == ParseInt(Get(d, k, << >>))
          sd_raw == Get(d, "sd", << >>)
          r == [ok |-> TRUE,
                version |-> ParseInt(Get(d, "version", << >>)),
                has_address |-> "rfsim_address" \in DOMAIN d,
                rfsim_address |-> Get(d, "rfsim_address", << >>),
                sst |-> int("sst"),
                sd |-> IF "sd" \in DOMAIN d THEN ParseInt(sd_raw) ELSE None,
                band |-> int("band"),
                dl_freq |-> int("dl_freq"),
                carrier_bandwidth |-> int("carrier_bandwidth"),
                numerology |-> int("numerology"),
                start_subcarrier |-> int("start_subcarrier")]
      IN IF \E k \in {"sst", "band", "dl_freq", "carrier_bandwidth", "numerology",
                      "start_subcarrier"} : int(k) = None
         THEN NoInfo
         ELSE IF "sd" \in DOMAIN d /\ ParseInt(sd_raw) = None
         THEN NoInfo
         ELSE IF ~ProviderAppDataValid(r)
         THEN NoInfo
         ELSE [f \in DOMAIN NoInfo |-> r[f]]

\* ProviderAppData(**data) of fiveg_rf_config succeeds on the record r read from the
\* data bag: the address is optional there
RFConfigAppDataValid(r) ==
    /\ r.version /= None /\ r.version[1] >= 0
    /\ (r.rfsim_address /= None => IsIPAddress(r.rfsim_address[1]))
    /\ r.sst[1] >= 0 /\ r.sst[1] <= SST_RELATION_MAX
    /\ (r.sd /= None => r.sd[1] >= 0 /\ r.sd[1] <= SD_MAX)
    /\ r.band[1] > 0
    /\ r.dl_freq[1] >= DL_FREQ_MIN
    /\ r.carrier_bandwidth[1] >= CARRIER_BANDWIDTH_MIN
    /\ r.carrier_bandwidth[1] <= CARRIER_BANDWIDTH_MAX
    /\ r.numerology[1] >= 0 /\ r.numerology[1] <= NUMEROLOGY_MAX
    /\ r.start_subcarrier[1] >= 0

\* RFConfigRequires.get_provider_rf_config_information: the record read (its
\* rfsim_address None when the bag holds none), or None
get_provider_rf_config_information(rel) ==
    IF ~rel.created THEN None
    ELSE
      LET d == rel.data
          int(k) == ParseInt(Get(d, k, << >>))
          r == [version |-> ParseInt(Get(d, "version", << >>)),
                rfsim_address |-> IF "rfsim_address" \in DOMAIN d
                                  THEN Some(d["rfsim_address"]) ELSE None,
                sst |-> int("sst"),
                sd |-> IF "sd" \in DOMAIN d THEN int("sd") ELSE None,
                band |-> int("band"),
                dl_freq |-> int("dl_freq"),
                carrier_bandwidth |-> int("carrier_bandwidth"),
                numerology |-> int("numerology"),
                start_subcarrier |-> int("start_subcarrier")]
      IN IF \E k \in {"sst", "band", "dl_freq", "carrier_bandwidth", "numerology",
                      "start_subcarrier"} : int(k) = None
         THEN None
         ELSE IF "sd" \in DOMAIN d /\ int("sd") = None
         THEN None
         ELSE IF ~RFConfigAppDataValid(r)
         THEN None
         ELSE Some(r)

(***************************************************************************)
(* fiveg_rfsim.py, fiveg_rf_config.py: provider side of the relation       *)
(*                                                                         *)
(* The values handed to the provider are a == [rfsim_address (Optional     *)
(* tuple of characters), sst, sd (Optional), band, dl_freq,                *)
(* carrier_bandwidth, numerology, start_subcarrier]; lib is the name of    *)
(* the library, which is the name of the relation as well.                 *)
(***************************************************************************)
\* provider_data_is_valid on the dictionary built by the provider
provider_data_is_valid(lib, a) ==
    /\ ParseInt(StrInt(LIBAPI)) /= None /\ ParseInt(StrInt(LIBAPI))[1] >= 0
    /\ IF a.rfsim_address = None THEN lib = "fiveg_rf_config"
       ELSE IsIPAddress(a.rfsim_address[1])
    /\ a.sst >= 0 /\ a.sst <= SST_RELATION_MAX
    /\ (a.sd /= None => a.sd[1] >= 0 /\ a.sd[1] <= SD_MAX)
    /\ a.band > 0
    /\ a.dl_freq >= DL_FREQ_MIN
    /\ a.carrier_bandwidth >= CARRIER_BANDWIDTH_MIN
    /\ a.carrier_bandwidth <= CARRIER_BANDWIDTH_MAX
    /\ a.numerology >= 0 /\ a.numerology <= NUMEROLOGY_MAX
    /\ a.start_subcarrier >= 0

PublishedData_Placeholder(a) ==
    [version |-> StrInt(LIBAPI),
     rfsim_address |-> IF a.rfsim_address /= None THEN a.rfsim_address[1] ELSE << >>,
     sst |-> StrInt(a.sst),
     sd |-> IF a.sd /= None THEN StrInt(a.sd[1]) ELSE << >>,
     band |-> StrInt(a.band),
     dl_freq |-> StrInt(a.dl_freq),
     carrier_bandwidth |-> StrInt(a.carrier_bandwidth),
     numerology |-> StrInt(a.numerology),
     start_subcarrier |-> StrInt(a.start_subcarrier)]

\* the dictionary the provider writes into each relation
PublishedData(a) ==
    LET data == [version |-> StrInt(LIBAPI),
                 sst |-> StrInt(a.sst),
                 band |-> StrInt(a.band),
                 dl_freq |-> StrInt(a.dl_freq),
                 carrier_bandwidth |-> StrInt(a.carrier_bandwidth),
                 numerology |-> StrInt(a.numerology),
                 start_subcarrier |-> StrInt(a.start_subcarrier)]
        address == IF a.rfsim_address /= None
                   THEN [rfsim_address |-> a.rfsim_address[1]] ELSE << >>
        sd == IF a.sd /= None THEN [sd |-> StrInt(a.sd[1])] ELSE << >>
    IN Update(Update(data, address), sd)

PublishOutcome_ValidateInLoop(lib, is_leader, bags, a) ==
    IF ~is_leader
    THEN [relations |-> bags,
          result |-> "Unit must be leader to set application relation data."]
    ELSE IF bags = << >>
    THEN [relations |-> bags, result |-> "Relation " \o lib \o " not created yet."]
    ELSE IF ~provider_data_is_valid(lib, a)
    THEN [relations |-> [bags EXCEPT ![1] = Update(@, PublishedData(a))],
          result |-> "Invalid relation data"]
    ELSE [relations |-> [i \in 1..Len(bags) |-> Update(bags[i], PublishedData(a))],
          result |-> "None"]

\* RFSIMProvides.set_rfsim_information and RFConfigProvides.set_rf_config_information:
\* the application data bags of the relations afterwards and "None" (returned) or the
\* message of the error raised
PublishOutcome(lib, is_leader, bags, a) ==
    IF ~is_leader
    THEN [relations |-> bags,
          result |-> "Unit must be leader to set application relation data."]
    ELSE IF bags = << >>
    THEN [relations |-> bags, result |-> "Relation " \o lib \o " not created yet."]
    ELSE IF ~provider_data_is_valid(lib, a)
    THEN [relations |-> bags, result |-> "Invalid relation data"]
    ELSE [relations |-> [i \in 1..Len(bags) |-> Update(bags[i], PublishedData(a))],
          result |-> "None"]

(***************************************************************************)
(* k8s.py: the StatefulSet and its patchers                                *)
(*                                                                         *)
(* statefulset == [containers, volumes]; a container is                    *)
(* [name, securityContext, volumeMounts].  A list the API leaves out (None) *)
(* is the empty tuple.  A securityContext is                               *)
(* [present, capabilities (present), add_present, add, privileged, other]: *)
(* `other` holds the settings besides capabilities.add and privileged.     *)
(***************************************************************************)
CONTAINER_NAME == "ue"

USB_MOUNT_PATH == "/dev/bus/usb"

usb_volume == [name |-> "usb", hostPath |-> USB_MOUNT_PATH, type |-> ""]

usb_volumemount == [name |-> "usb", mountPath |-> USB_MOUNT_PATH]

NoSecurityContext ==
    [present |-> FALSE, capabilities |-> FALSE, add_present |-> FALSE, add |-> << >>,
     privileged |-> FALSE, other |-> {}]

InSeq(x, seq) == \E i \in 1..Len(seq) : seq[i] = x

\* index of the first container with that name, 0 when there is none (StopIteration)
ContainerIndex(sts, container_name) ==
    IF \E i \in 1..Len(sts.containers) : sts.containers[i].name = container_name
    THEN CHOOSE i \in 1..Len(sts.containers) :
             /\ sts.containers[i].name = container_name
             /\ \A j \in 1..(i - 1) : sts.containers[j].name /= container_name
    ELSE 0

\* the StatefulSet that k8s_client.get cannot fetch (ApiError)
NoStatefulSet == [missing |-> TRUE]

\* k8s_client.get refused while the kube-apiserver is not ready
\* (ApiError whose status.reason is "Unauthorized")
UnauthorizedStatefulSet == [missing |-> TRUE, reason |-> "Unauthorized"]

ApiErrors == {NoStatefulSet, UnauthorizedStatefulSet}

\* the StatefulSet is fetched and holds a container of that name
Located(sts, container_name) ==
    sts \notin ApiErrors /\ ContainerIndex(sts, container_name) /= 0

\* K8sPrivileged.is_patched: "True", "False", or the exception raised
is_patched(sts, container_name) ==
    LET i == ContainerIndex(sts, container_name)
        sc == sts.containers[i].securityContext
    IN IF sts \in ApiErrors THEN "K8sError"
       ELSE IF i = 0 THEN "K8sError"
       ELSE IF ~sc.present \/ ~sc.capabilities THEN "False"
       ELSE IF ~sc.add_present THEN "TypeError"
       ELSE IF ~InSeq("NET_ADMIN", sc.add) THEN "False"
       ELSE IF ~sc.privileged THEN "False"
       ELSE "True"

\* K8sPrivileged.patch_statefulset: the object handed to k8s_client.replace
patch_statefulset(sts, container_name) ==
    LET i == ContainerIndex(sts, container_name)
    IN [sts EXCEPT !.containers[i].securityContext =
            [present |-> TRUE, capabilities |-> TRUE, add_present |-> TRUE,
             add |-> <<"NET_ADMIN">>, privileged |-> TRUE, other |-> {}]]

\* K8sPrivileged.patch_statefulset as called: the StatefulSet the API holds afterwards
\* and "None" (returned) or "K8sError" (raised); replace_ok tells whether
\* k8s_client.replace succeeds
PatchStatefulsetOutcome(sts, container_name, replace_ok) ==
    IF ~Located(sts, container_name) THEN [statefulset |-> sts, result |-> "K8sError"]
    ELSE IF ~replace_ok THEN [statefulset |-> sts, result |-> "K8sError"]
    ELSE [statefulset |-> patch_statefulset(sts, container_name), result |-> "None"]

\* K8sUSBVolume._pod_has_usb_volumemount
_pod_has_usb_volumemount(sts, container_name) ==
    LET i == ContainerIndex(sts, container_name)
    IN IF sts.containers[i].volumeMounts = << >> THEN FALSE
       ELSE InSeq(usb_volumemount, sts.containers[i].volumeMounts)

\* K8sUSBVolume._statefulset_has_usb_volume
_statefulset_has_usb_volume(sts) ==
    IF sts.volumes = << >> THEN FALSE ELSE InSeq(usb_volume, sts.volumes)

is_mounted_Either(sts) ==
    _pod_has_usb_volumemount(sts, CONTAINER_NAME) \/ _statefulset_has_usb_volume(sts)

\* K8sUSBVolume.is_mounted
is_mounted(sts) ==
    _pod_has_usb_volumemount(sts, CONTAINER_NAME) /\ _statefulset_has_usb_volume(sts)

mount_Replaces(sts) ==
    LET i == ContainerIndex(sts, CONTAINER_NAME)
    IN [sts EXCEPT !.containers[i].volumeMounts = <<usb_volumemount>>,
                   !.volumes = <<usb_volume>>]

\* K8sUSBVolume.mount: the object handed to k8s_client.replace
mount(sts) ==
    LET i == ContainerIndex(sts, CONTAINER_NAME)
    IN [sts EXCEPT !.containers[i].volumeMounts = Append(@, usb_volumemount),
                   !.volumes = Append(@, usb_volume)]

\* K8sUSBVolume.unmount: the object handed to k8s_client.replace
unmount(sts) ==
    LET i == ContainerIndex(sts, CONTAINER_NAME)
        keep_mount(vm) == vm.name /= usb_volumemount.name
        keep_volume(v) == v.name /= usb_volume.name
    IN [sts EXCEPT !.containers[i].volumeMounts = SelectSeq(@, keep_mount),
                   !.volumes = SelectSeq(@, keep_volume)]

\* K8sUSBVolume.is_mounted as called: "True", "False", or the exception raised.
\* _container_is_patched answers False when the API is not ready, so the conjunction
\* stops there; any other ApiError and a missing container raise K8sError.
IsMountedOutcome(sts) ==
    IF sts = UnauthorizedStatefulSet THEN "False"
    ELSE IF ~Located(sts, CONTAINER_NAME) THEN "K8sError"
    ELSE IF is_mounted(sts) THEN "True"
    ELSE "False"

\* K8sUSBVolume.mount as called: the StatefulSet the API holds afterwards and "None"
\* (returned) or the exception raised
MountOutcome(sts, replace_ok) ==
    IF ~Located(sts, CONTAINER_NAME) THEN [statefulset |-> sts, result |-> "K8sError"]
    ELSE IF ~replace_ok THEN [statefulset |-> sts, result |-> "K8sError"]
    ELSE [statefulset |-> mount(sts), result |-> "None"]

\* K8sUSBVolume.unmount as called: the comprehensions iterate over the two lists, and
\* a list the API leaves out is None, which is not iterable
UnmountOutcome(sts, replace_ok) ==
    IF ~Located(sts, CONTAINER_NAME) THEN [statefulset |-> sts, result |-> "K8sError"]
    ELSE IF sts.containers[ContainerIndex(sts, CONTAINER_NAME)].volumeMounts = << >>
         THEN [statefulset |-> sts, result |-> "TypeError"]
    ELSE IF sts.volumes = << >> THEN [statefulset |-> sts, result |-> "TypeError"]
    ELSE IF ~replace_ok THEN [statefulset |-> sts, result |-> "K8sError"]
    ELSE [statefulset |-> unmount(sts), result |-> "None"]

(***************************************************************************)
(* charm.py: statuses, rendering, Pebble layer                             *)
(***************************************************************************)
BlockedStatus(m) == [name |-> "blocked", message |-> m]

WaitingStatus(m) == [name |-> "waiting", message |-> m]

ActiveStatus == [name |-> "active", message |-> ""]

\* the hook failed with an uncaught exception
ErrorStatus(m) == [name |-> "error", message |-> m]

\* no status collected since the inputs last changed
NoStatus == [name |-> "unknown", message |-> ""]

\* OaiRanUeK8SOperatorCharm._relation_created
_relation_created == relation.created

\* _get_pod_ip: None when unit-get prints nothing
_get_pod_ip == IF pod_ip /= "" THEN Some(pod_ip) ELSE None

\* the properties of self.rfsim_requirer
rfsim_requirer == get_provider_rfsim_information(relation)

provider_interface_version == _get_provider_interface_version(relation)

\* the hexadecimal digits of n, left-padded with zeros to six
HexDigits6(n) ==
    HexDigit((n \div 1048576) % 16) \o HexDigit((n \div 65536) % 16)
        \o HexDigit((n \div 4096) % 16) \o HexDigit((n \div 256) % 16)
        \o HexDigit((n \div 16) % 16) \o HexDigit(n % 16)

\* variant: the value padded to the six digits of the sentinel
get_sd_as_hex_Padded(value) ==
    IF value = None THEN "0xffffff" ELSE "0x" \o HexDigits6(value[1])

\* get_sd_as_hex
get_sd_as_hex(value) == IF value = None THEN "0xffffff" ELSE "0x" \o HexDigits(value[1])

\* _get_sst
_get_sst == IF _relation_created THEN rfsim_requirer.sst ELSE from_charm(config).sst

\* variant: the slice differentiator always taken from the charm configuration
_get_sd_FromConfig == from_charm(config).sd

\* _get_sd
_get_sd == IF _relation_created THEN rfsim_requirer.sd ELSE from_charm(config).sd

\* _render_config_file: the text is held as the tuple of the values substituted
\* into the template ue.conf.j2
_render_config_file(imsi, key, opc, dnn, sst, sd) == <<imsi, key, opc, dnn, ToString(sst), sd>>

\* _generate_ue_config: the empty tuple is the empty string
_generate_ue_config ==
    LET cfg == from_charm(config)
        sst == _get_sst
        sd == _get_sd
    IN IF ~Truthy(sst) THEN << >>
       ELSE _render_config_file(cfg.imsi, cfg.key, cfg.opc, cfg.dnn, sst[1], get_sd_as_hex(sd))

\* variant: the file is taken to differ on every invocation
_config_file_content_matches_never(content) == FALSE

\* _config_file_content_matches
_config_file_content_matches(content) ==
    IF ~config_file.exists THEN FALSE
    ELSE IF config_file.content /= content THEN FALSE
    ELSE TRUE

\* variant: an update is required only when there is no file
_is_ue_config_up_to_date_OnlyWhenAbsent(content) == ~config_file.exists

\* _is_ue_config_up_to_date: TRUE when a config update is required
_is_ue_config_up_to_date(content) ==
    IF ~_config_file_content_matches(content) THEN TRUE ELSE FALSE

\* variant: the values of -r and --numerology swapped in simulation mode
StartupCommand_SwappedFlags(r, rfsim) ==
       IF rfsim
       THEN JoinWith(" ", <<"/opt/oai-gnb/bin/nr-uesoftmodem", "-O", "/tmp/conf/ue.conf",
                "--rfsim",
                "-r", StrOpt(r.numerology),
                "--numerology", StrOpt(r.carrier_bandwidth),
                "-C", StrOpt(r.dl_freq),
                "--ssb", StrOpt(r.start_subcarrier),
                "--band", StrOpt(r.band),
                "--log_config.global_log_options", "level,nocolor,time",
                "--rfsimulator.serveraddr",
                IF r.ok THEN Join(r.rfsim_address) ELSE "">>)
       ELSE JoinWith(" ", <<"/opt/oai-gnb/bin/nr-uesoftmodem", "-O", "/tmp/conf/ue.conf",
                "-r", StrOpt(r.carrier_bandwidth),
                "--numerology", StrOpt(r.numerology),
                "-C", StrOpt(r.dl_freq),
                "--ssb", StrOpt(r.start_subcarrier),
                "--band", StrOpt(r.band),
                "-E",
                "--log_config.global_log_options", "level,nocolor,time">>)

\* the command line built from the properties r of self.rfsim_requirer
StartupCommand(r, rfsim) ==
       IF rfsim
       THEN JoinWith(" ", <<"/opt/oai-gnb/bin/nr-uesoftmodem", "-O", "/tmp/conf/ue.conf",
                "--rfsim",
                "-r", StrOpt(r.carrier_bandwidth),
                "--numerology", StrOpt(r.numerology),
                "-C", StrOpt(r.dl_freq),
                "--ssb", StrOpt(r.start_subcarrier),
                "--band", StrOpt(r.band),
                "--log_config.global_log_options", "level,nocolor,time",
                "--rfsimulator.serveraddr",
                IF r.ok THEN Join(r.rfsim_address) ELSE "">>)
       ELSE JoinWith(" ", <<"/opt/oai-gnb/bin/nr-uesoftmodem", "-O", "/tmp/conf/ue.conf",
                "-r", StrOpt(r.carrier_bandwidth),
                "--numerology", StrOpt(r.numerology),
                "-C", StrOpt(r.dl_freq),
                "--ssb", StrOpt(r.start_subcarrier),
                "--band", StrOpt(r.band),
                "-E",
                "--log_config.global_log_options", "level,nocolor,time">>)

\* _get_ue_startup_command
_get_ue_startup_command(rfsim) == StartupCommand(rfsim_requirer, rfsim)

\* _get_ue_pebble_layer: the services of the layer (service name -> definition)
_get_ue_pebble_layer(rfsim) ==
    [ue |-> [override |-> "replace", startup |-> "enabled",
             command |-> _get_ue_startup_command(rfsim),
             environment |-> [TZ |-> "UTC"]]]

\* the plan of a container that holds no layer
NoServices == [none |-> TRUE]

\* _configure_pebble once the layer is computed: the plan and the Pebble calls issued
ApplyLayer(pebble_layer, restart) ==
    IF plan /= pebble_layer
    THEN [plan |-> pebble_layer,
          fired |-> <<"add_layer", "replan">> \o (IF restart THEN <<"restart">> ELSE <<"replan">>)]
    ELSE [plan |-> plan, fired |-> IF restart THEN <<"restart">> ELSE <<"replan">>]

\* variant: a changed service definition restarts the service as well
_configure_pebble_restart_on_change(rfsim, restart) ==
    ApplyLayer(_get_ue_pebble_layer(rfsim), restart \/ plan /= _get_ue_pebble_layer(rfsim))

\* _configure_pebble
_configure_pebble(rfsim, restart) == ApplyLayer(_get_ue_pebble_layer(rfsim), restart)

(***************************************************************************)
(* charm.py: _on_collect_unit_status                                       *)
(***************************************************************************)
\* variant: the container check ahead of the config check
StatusChecks_ContainerFirst ==
    <<"leader", "container", "config", "pod_ip", "patched", "usb", "rfsim_info",
      "version", "storage">>

\* variant: the storage check right after the pod IP check
StatusChecks_StorageFifth ==
    <<"leader", "config", "container", "pod_ip", "storage", "patched", "usb",
      "rfsim_info", "version">>

\* variant: no check of the completeness of the relation data
StatusChecks_NoRfsimInfo ==
    <<"leader", "config", "container", "pod_ip", "patched", "usb", "version", "storage">>

\* variant: the storage check ahead of the USB check
StatusChecks_StorageBeforeUsb ==
    <<"leader", "config", "container", "pod_ip", "patched", "storage", "usb",
      "rfsim_info", "version">>

\* the checks of the status ladder, in the order the handler makes them
StatusChecks ==
    <<"leader", "config", "container", "pod_ip", "patched", "usb", "rfsim_info",
      "version", "storage">>

\* the condition under which a check adds its status and returns
CheckFails(c) ==
    CASE c = "leader" -> ~leader
      [] c = "config" -> ~from_charm(config).ok
      [] c = "container" -> ~can_connect
      [] c = "pod_ip" -> _get_pod_ip = None
      [] c = "patched" -> is_patched(statefulset, CONTAINER_NAME) /= "True"
      [] c = "usb" -> ~_relation_created /\ ~is_mounted(statefulset)
      [] c = "rfsim_info" ->
            _relation_created
            /\ ~(/\ Truthy(provider_interface_version)
                 /\ Truthy(rfsim_requirer.sst)
                 /\ Truthy(rfsim_requirer.sd)
                 /\ Truthy(rfsim_requirer.band)
                 /\ Truthy(rfsim_requirer.dl_freq)
                 /\ Truthy(rfsim_requirer.numerology)
                 /\ Truthy(rfsim_requirer.carrier_bandwidth)
                 /\ Truthy(rfsim_requirer.start_subcarrier))
      [] c = "version" -> _relation_created /\ provider_interface_version /= Some(LIBAPI)
      [] c = "storage" -> ~storage

\* the message of the version check (the backquotes around fiveg_rfsim are written
\* as apostrophes)
VersionMismatchMessage ==
    "Can't establish communication over the 'fiveg_rfsim' interface due to version mismatch!"

\* the status a failing check adds
CheckStatus(c) ==
    CASE c = "leader" -> BlockedStatus("Scaling is not implemented for this charm")
      [] c = "config" -> BlockedStatus(from_charm(config).msg)
      [] c = "container" -> WaitingStatus("Waiting for container to be ready")
      [] c = "pod_ip" -> WaitingStatus("Waiting for Pod IP address to be available")
      [] c = "patched" ->
            IF is_patched(statefulset, CONTAINER_NAME) = "False"
            THEN WaitingStatus("Waiting for statefulset to be patched")
            ELSE ErrorStatus(is_patched(statefulset, CONTAINER_NAME))
      [] c = "usb" -> WaitingStatus("Waiting for USB device to be mounted")
      [] c = "rfsim_info" -> WaitingStatus("Waiting for RFSIM information")
      [] c = "version" -> BlockedStatus(VersionMismatchMessage)
      [] c = "storage" -> WaitingStatus("Waiting for storage to be attached")

RECURSIVE FirstFailing(_)
\* the first failing check wins; Active when every check passes
FirstFailing(checks) ==
    IF checks = << >> THEN ActiveStatus
    ELSE IF CheckFails(Head(checks)) THEN CheckStatus(Head(checks))
    ELSE FirstFailing(Tail(checks))

_on_collect_unit_status == FirstFailing(StatusChecks)

\* no call of set_workload_version
Unset == [set |-> FALSE, version |-> ""]

\* _get_workload_version: the content of the file, "" when there is no file
_get_workload_version ==
    IF workload_version_file.exists THEN workload_version_file.content ELSE ""

\* variant: the workload version is set whatever the status
SetWorkloadVersion_Always(status) == [set |-> TRUE, version |-> _get_workload_version]

\* _on_collect_unit_status, its last two statements: set_workload_version is called
\* on the path that adds ActiveStatus, and on no other
SetWorkloadVersion(status) ==
    IF status = ActiveStatus
    THEN [set |-> TRUE, version |-> _get_workload_version]
    ELSE Unset

(***************************************************************************)
(* charm.py: __init__ and _configure                                       *)
(***************************************************************************)
\* variant: no leadership check before the handlers are observed
ConfigureObserved_AnyUnit == from_charm(config).ok

\* __init__ observes the events of _configure (and the ping action) only on a
\* leader whose configuration is valid
ConfigureObserved == leader /\ from_charm(config).ok

\* the outcome of a dispatch that runs no handler
NoPass ==
    [statefulset |-> statefulset, config_file |-> config_file, plan |-> plan,
     fired |-> << >>, raised |-> ""]

\* _configure, the patch step: k is [statefulset, fired], the StatefulSet so far and
\* the mutating calls made so far
PatchStep(k) ==
    IF is_patched(k.statefulset, CONTAINER_NAME) = "False"
    THEN [statefulset |-> patch_statefulset(k.statefulset, CONTAINER_NAME),
          fired |-> Append(k.fired, "patch_statefulset")]
    ELSE k

\* variant: the volume is mounted whenever there is no relation
MountStep_NoMountedCheck(k) ==
    IF ~_relation_created
    THEN [statefulset |-> mount(k.statefulset), fired |-> Append(k.fired, "mount")]
    ELSE k

\* _configure, the mount step
MountStep(k) ==
    IF ~_relation_created /\ ~is_mounted(k.statefulset)
    THEN [statefulset |-> mount(k.statefulset), fired |-> Append(k.fired, "mount")]
    ELSE k

\* _configure, the unmount step
UnmountStep(k) ==
    IF _relation_created /\ is_mounted(k.statefulset)
    THEN [statefulset |-> unmount(k.statefulset), fired |-> Append(k.fired, "unmount")]
    ELSE k

\* variant: the calls of _configure_pebble made before the file is written
WriteStep_PebbleFirst(k, ue_config, service_restart_required, pebble) ==
    [statefulset |-> k.statefulset,
     config_file |-> IF service_restart_required
                     THEN [exists |-> TRUE, content |-> ue_config]
                     ELSE config_file,
     plan |-> pebble.plan,
     fired |-> k.fired \o pebble.fired
                   \o (IF service_restart_required THEN <<"push">> ELSE << >>),
     raised |-> ""]

\* _configure, the end of the handler: the file written when the update is required,
\* then the calls of _configure_pebble
WriteStep(k, ue_config, service_restart_required, pebble) ==
    [statefulset |-> k.statefulset,
     config_file |-> IF service_restart_required
                     THEN [exists |-> TRUE, content |-> ue_config]
                     ELSE config_file,
     plan |-> pebble.plan,
     fired |-> (IF service_restart_required THEN Append(k.fired, "push") ELSE k.fired)
                   \o pebble.fired,
     raised |-> ""]

\* _configure from the render step on
RenderStep(k, ue_config, service_restart_required) ==
    WriteStep(k, ue_config, service_restart_required,
              _configure_pebble(_relation_created, service_restart_required))

\* variant: only rfsim_address of the relation data is checked, not sst
AfterK8s_AddressOnly(k, r) ==
    IF _relation_created /\ ~r.ok
    THEN [NoPass EXCEPT !.statefulset = k.statefulset, !.fired = k.fired]
    ELSE IF ~storage
    THEN [NoPass EXCEPT !.statefulset = k.statefulset, !.fired = k.fired]
    ELSE RenderStep(k, _generate_ue_config, _is_ue_config_up_to_date(_generate_ue_config))

\* variant: no check of the relation data before the storage check
AfterK8s_NoDataCheck(k, r) ==
    IF ~storage
    THEN [NoPass EXCEPT !.statefulset = k.statefulset, !.fired = k.fired]
    ELSE RenderStep(k, _generate_ue_config, _is_ue_config_up_to_date(_generate_ue_config))

\* _configure past the Kubernetes steps: r is self.rfsim_requirer
AfterK8s(k, r) ==
    IF _relation_created /\ (~r.ok \/ ~Truthy(r.sst))
    THEN [NoPass EXCEPT !.statefulset = k.statefulset, !.fired = k.fired]
    ELSE IF ~storage
    THEN [NoPass EXCEPT !.statefulset = k.statefulset, !.fired = k.fired]
    ELSE RenderStep(k, _generate_ue_config, _is_ue_config_up_to_date(_generate_ue_config))

\* _configure past its first three checks: p is the outcome of is_patched
K8sSteps(p) ==
    IF p \notin {"True", "False"} THEN [NoPass EXCEPT !.raised = p]
    ELSE AfterK8s(UnmountStep(MountStep(PatchStep([statefulset |-> statefulset,
                                                   fired |-> << >>]))),
                  rfsim_requirer)

\* variant: no check of the pod IP
_configure_NoPodIpGuard ==
    IF ~from_charm(config).ok THEN NoPass
    ELSE IF ~can_connect THEN NoPass
    ELSE K8sSteps(is_patched(statefulset, CONTAINER_NAME))

\* _configure: the state it leaves, the mutating calls it makes, the exception raised
_configure ==
    IF ~from_charm(config).ok THEN NoPass
    ELSE IF ~can_connect THEN NoPass
    ELSE IF _get_pod_ip = None THEN NoPass
    ELSE K8sSteps(is_patched(statefulset, CONTAINER_NAME))

(***************************************************************************)
(* charm.py: the ping action                                               *)
(*                                                                         *)
(* exec is what running the command in the workload comes to:              *)
(* [kind |-> "exit", code, stdout] when the process ends, and              *)
(* [kind |-> "timeout"] when it outlives the timeout of the exec, on which *)
(* wait_output raises ChangeError.  The outcome of the action is           *)
(* [failed, message, results, executed, raised].                           *)
(***************************************************************************)
RECURSIVE Split(_, _, _)
\* s.split(): the words between the blanks; acc holds the finished words, cur the
\* word being read
Split(s, acc, cur) ==
    IF s = << >> THEN (IF cur = << >> THEN acc ELSE Append(acc, Join(cur)))
    ELSE IF Head(s) = " "
    THEN Split(Tail(s), IF cur = << >> THEN acc ELSE Append(acc, Join(cur)), << >>)
    ELSE Split(Tail(s), acc, Append(cur, Head(s)))

\* the command of _on_ping_action: "ping -I oaitun_ue1 8.8.8.8 -c 10"
PingCommand ==
    <<"p", "i", "n", "g", " ", "-", "I", " ",
      "o", "a", "i", "t", "u", "n", "_", "u", "e", "1", " ",
      "8", ".", "8", ".", "8", ".", "8", " ", "-", "c", " ", "1", "0">>

\* an action event on which neither fail nor set_results was called
NoOutcome ==
    [failed |-> FALSE, message |-> "", results |-> None, executed |-> << >>,
     raised |-> ""]

\* event.fail(message)
Fail(message, executed) ==
    [failed |-> TRUE, message |-> message, results |-> None, executed |-> executed,
     raised |-> ""]

\* _exec_command_in_workload and what _on_ping_action makes of it; argv is
\* command.split()
ExecStep(argv, exec) ==
    IF exec.kind = "timeout"
    THEN [NoOutcome EXCEPT !.executed = <<argv>>, !.raised = "ChangeError"]
    ELSE IF exec.code /= 0
    THEN Fail("Failed to execute simulation: " \o exec.stdout, <<argv>>)
    ELSE [NoOutcome EXCEPT !.executed = <<argv>>,
                           !.results = Some([success |-> "true", result |-> exec.stdout])]

_on_ping_action_ServiceFirst(exec) ==
    IF "ue" \notin DOMAIN plan THEN Fail("UE service is not ready", << >>)
    ELSE IF ~can_connect THEN Fail("Container is not ready", << >>)
    ELSE ExecStep(Split(PingCommand, << >>, << >>), exec)

_on_ping_action_TwoPings(exec) ==
    IF ~can_connect THEN Fail("Container is not ready", << >>)
    ELSE IF "ue" \notin DOMAIN plan THEN Fail("UE service is not ready", << >>)
    ELSE [ExecStep(Split(PingCommand, << >>, << >>), exec)
             EXCEPT !.executed = @ \o @]

\* _on_ping_action
_on_ping_action(exec) ==
    IF ~can_connect THEN Fail("Container is not ready", << >>)
    ELSE IF "ue" \notin DOMAIN plan THEN Fail("UE service is not ready", << >>)
    ELSE ExecStep(Split(PingCommand, << >>, << >>), exec)

(***************************************************************************)
(* The inputs the environment can present                                  *)
(***************************************************************************)
DefaultConfig ==
    [imsi |-> "208930100007487", key |-> "5122250214c33e723a5dd523fc145fc0",
     opc |-> "981d464c7c52eb6e5036234984ad0bcf", dnn |-> "internet",
     sst |-> Some(1), sd |-> Some(102030)]

Configs ==
    {DefaultConfig,
     [DefaultConfig EXCEPT !.imsi = "123abc"],
     [DefaultConfig EXCEPT !.dnn = "", !.sst = None]}

FullData(version) ==
    [version |-> version,
     rfsim_address |-> <<"1", ".", "1", ".", "1", ".", "1">>,
     sst |-> <<"1">>,
     sd |-> <<"1", "2", "5", "5", "5">>,
     band |-> <<"7", "7">>,
     dl_freq |-> <<"2", "1", "2", "4", "0", "6", "0", "0", "0", "0">>,
     carrier_bandwidth |-> <<"1", "0", "6">>,
     numerology |-> <<"1">>,
     start_subcarrier |-> <<"5", "2", "9">>]

\* the data bag d without the key k
Without(d, k) == [x \in (DOMAIN d) \ {k} |-> d[x]]

RequiredKeys ==
    {"rfsim_address", "sst", "band", "dl_freq", "carrier_bandwidth", "numerology",
     "start_subcarrier"}

\* the remote application data bags the provider side can present
RemoteDatas ==
    {FullData(<<"0">>), FullData(<<"1">>)}
    \cup {Without(FullData(<<"0">>), k) : k \in RequiredKeys \cup {"sd"}}
    \cup {Without(FullData(<<"1">>), k) : k \in {"sst", "sd"}}
    \cup {[FullData(<<"0">>) EXCEPT !.band = <<"7", "8">>]}
    \cup {[version |-> <<"0">>]}

\* the application data bag of this charm in the relation: no statement of the charm
\* or of RFSIMRequires writes it
NoLocalAppData == << >>

NoRelation == [created |-> FALSE, data |-> [version |-> << >>], local_app_data |-> NoLocalAppData]

PatchedSecurityContext ==
    [present |-> TRUE, capabilities |-> TRUE, add_present |-> TRUE,
     add |-> <<"NET_ADMIN">>, privileged |-> TRUE, other |-> {}]

SecurityContexts ==
    {NoSecurityContext,
     PatchedSecurityContext,
     [present |-> TRUE, capabilities |-> TRUE, add_present |-> TRUE,
      add |-> <<"SYS_NICE">>, privileged |-> FALSE, other |-> {"runAsUser"}]}

\* the StatefulSets the Kubernetes API can hold for this application
StatefulSets ==
    {[containers |-> <<[name |-> CONTAINER_NAME, securityContext |-> sc,
                        volumeMounts |-> IF usb THEN <<usb_volumemount>> ELSE << >>]>>,
      volumes |-> IF usb THEN <<usb_volume>> ELSE << >>] :
        sc \in SecurityContexts, usb \in BOOLEAN}

NoFile == [exists |-> FALSE, content |-> << >>]

\* /etc/workload-version as the image ships it, and the container without that file
VersionFile == [exists |-> TRUE, content |-> "2.2.0"]

NoVersionFile == [exists |-> FALSE, content |-> ""]

VersionFiles == {VersionFile, NoVersionFile}

\* no method of K8sPrivileged called directly
NoCall == [call |-> "", container_name |-> "", result |-> ""]

(***************************************************************************)
(* State machine                                                           *)
(***************************************************************************)
Init ==
    /\ leader \in BOOLEAN
    /\ config \in Configs
    /\ can_connect = FALSE
    /\ pod_ip = ""
    /\ storage = FALSE
    /\ statefulset \in {s \in StatefulSets :
                          /\ s.containers[1].securityContext = NoSecurityContext
                          /\ s.volumes = << >>}
    /\ relation = NoRelation
    /\ config_file = NoFile
    /\ plan = NoServices
    /\ passes = 0
    /\ fired = << >>
    /\ unit_status = NoStatus
    /\ workload_version_file = VersionFile
    /\ workload_version = Unset
    /\ returned = NoCall
    /\ provider_relations = << >>

\* what every change of the inputs does to the record of the latest handlers
Changed ==
    /\ passes' = 0
    /\ fired' = << >>
    /\ unit_status' = NoStatus
    /\ workload_version' = Unset
    /\ UNCHANGED <<workload_version_file, returned, provider_relations>>

\* Juju elects this unit leader, or takes leadership away
LeaderChanged ==
    /\ leader' = ~leader
    /\ Changed
    /\ UNCHANGED <<config, can_connect, pod_ip, storage, statefulset, relation,
                   config_file, plan>>

\* juju config
ConfigChanged(c) ==
    /\ c /= config
    /\ config' = c
    /\ Changed
    /\ UNCHANGED <<leader, can_connect, pod_ip, storage, statefulset, relation,
                   config_file, plan>>

\* Pebble of the workload container comes up, with an empty plan
PebbleReady ==
    /\ ~can_connect
    /\ can_connect' = TRUE
    /\ Changed
    /\ UNCHANGED <<leader, config, pod_ip, storage, statefulset, relation, config_file, plan>>

\* the workload container goes away; its Pebble plan goes with it
ContainerGone ==
    /\ can_connect
    /\ can_connect' = FALSE
    /\ plan' = NoServices
    /\ Changed
    /\ UNCHANGED <<leader, config, pod_ip, storage, statefulset, relation, config_file>>

PodIpChanged(ip) ==
    /\ ip /= pod_ip
    /\ pod_ip' = ip
    /\ Changed
    /\ UNCHANGED <<leader, config, can_connect, storage, statefulset, relation,
                   config_file, plan>>

StorageAttached ==
    /\ ~storage
    /\ storage' = TRUE
    /\ Changed
    /\ UNCHANGED <<leader, config, can_connect, pod_ip, statefulset, relation,
                   config_file, plan>>

\* /tmp/conf goes away, and ue.conf with it
StorageDetached ==
    /\ storage
    /\ storage' = FALSE
    /\ config_file' = NoFile
    /\ Changed
    /\ UNCHANGED <<leader, config, can_connect, pod_ip, statefulset, relation, plan>>

\* the provider joins the relation or rewrites its application data
RelationChanged(d) ==
    /\ ~(relation.created /\ relation.data = d)
    /\ relation' = [created |-> TRUE, data |-> d, local_app_data |-> relation.local_app_data]
    /\ Changed
    /\ UNCHANGED <<leader, config, can_connect, pod_ip, storage, statefulset,
                   config_file, plan>>

RelationBroken ==
    /\ relation.created
    /\ relation' = NoRelation
    /\ Changed
    /\ UNCHANGED <<leader, config, can_connect, pod_ip, storage, statefulset,
                   config_file, plan>>

\* another writer (Juju itself, an administrator) replaces the StatefulSet
StatefulSetReplaced(s) ==
    /\ s /= statefulset
    /\ statefulset' = s
    /\ Changed
    /\ UNCHANGED <<leader, config, can_connect, pod_ip, storage, relation,
                   config_file, plan>>

ConfigureEvents ==
    {"update_status", "config_changed", "ue_pebble_ready", "fiveg_rfsim_relation_changed"}

\* dispatch of one of the events _configure observes: __init__, then the handler
Configure(event) ==
    /\ passes < MaxPasses
    /\ LET r == IF ConfigureObserved THEN _configure ELSE NoPass
       IN /\ statefulset' = r.statefulset
          /\ config_file' = r.config_file
          /\ plan' = r.plan
          /\ fired' = r.fired
          /\ unit_status' = IF r.raised = "" THEN NoStatus ELSE ErrorStatus(r.raised)
    /\ passes' = passes + 1
    /\ workload_version' = Unset
    /\ UNCHANGED <<leader, config, can_connect, pod_ip, storage, relation,
                   workload_version_file, returned,
                   provider_relations>>

\* dispatch of collect_unit_status
CollectStatus ==
    /\ unit_status = NoStatus
    /\ unit_status' = _on_collect_unit_status
    /\ workload_version' = SetWorkloadVersion(_on_collect_unit_status)
    /\ UNCHANGED <<leader, config, can_connect, pod_ip, storage, statefulset, relation,
                   config_file, plan, passes, fired, workload_version_file, returned,
                   provider_relations>>

Next ==
    \/ LeaderChanged
    \/ \E c \in Configs : ConfigChanged(c)
    \/ PebbleReady
    \/ ContainerGone
    \/ \E ip \in {"", "1.2.3.4"} : PodIpChanged(ip)
    \/ StorageAttached
    \/ StorageDetached
    \/ \E d \in RemoteDatas : RelationChanged(d)
    \/ RelationBroken
    \/ \E s \in StatefulSets : StatefulSetReplaced(s)
    \/ \E event \in ConfigureEvents : Configure(event)
    \/ CollectStatus

Spec == Init /\ [][Next]_vars

(***************************************************************************)
(* collect-status on its own: the handler applied to every combination of  *)
(* the inputs it reads                                                     *)
(***************************************************************************)
Relations ==
    {NoRelation}
    \cup {[created |-> TRUE, data |-> d, local_app_data |-> NoLocalAppData] : d \in RemoteDatas}

InitStatus ==
    /\ leader \in BOOLEAN
    /\ config \in Configs
    /\ can_connect \in BOOLEAN
    /\ pod_ip \in {"", "1.2.3.4"}
    /\ storage \in BOOLEAN
    /\ statefulset \in StatefulSets
    /\ relation \in Relations
    /\ config_file = NoFile
    /\ plan = NoServices
    /\ passes = 0
    /\ fired = << >>
    /\ unit_status = NoStatus
    /\ workload_version_file \in VersionFiles
    /\ workload_version = Unset
    /\ returned = NoCall
    /\ provider_relations = << >>

NextStatus == CollectStatus

SpecStatus == InitStatus /\ [][NextStatus]_vars

(***************************************************************************)
(* K8sPrivileged and K8sUSBVolume on their own: is_patched,                *)
(* patch_statefulset, is_mounted, mount and unmount called on the          *)
(* StatefulSets the API can hold                                           *)
(***************************************************************************)
\* mount appends on every call: the calls stop at this many volumes
MaxVolumes == 3

\* the shapes of a container's securityContext
K8sSecurityContexts ==
    SecurityContexts
    \cup {[present |-> TRUE, capabilities |-> FALSE, add_present |-> FALSE, add |-> << >>,
           privileged |-> TRUE, other |-> {}],
          [present |-> TRUE, capabilities |-> TRUE, add_present |-> FALSE, add |-> << >>,
           privileged |-> TRUE, other |-> {"drop"}],
          [present |-> TRUE, capabilities |-> TRUE, add_present |-> TRUE, add |-> << >>,
           privileged |-> TRUE, other |-> {}],
          [present |-> TRUE, capabilities |-> TRUE, add_present |-> TRUE,
           add |-> <<"NET_ADMIN">>, privileged |-> FALSE, other |-> {}],
          [present |-> TRUE, capabilities |-> TRUE, add_present |-> TRUE,
           add |-> <<"SYS_NICE", "NET_ADMIN">>, privileged |-> TRUE,
           other |-> {"runAsUser"}]}

ContainerNames == {CONTAINER_NAME, "charm"}

K8sContainers ==
    {[name |-> n, securityContext |-> sc, volumeMounts |-> << >>] :
        n \in ContainerNames, sc \in K8sSecurityContexts}

\* a volume and a mount that are not the USB ones, and a volume and a mount
\* named usb that differ from the ones K8sUSBVolume builds
config_volume == [name |-> "config", persistentVolumeClaim |-> "config"]

config_volumemount == [name |-> "config", mountPath |-> "/tmp/conf"]

stale_usb_volume == [name |-> "usb", hostPath |-> "/dev/usb", type |-> ""]

stale_usb_volumemount == [name |-> "usb", mountPath |-> "/dev/usb"]

K8sVolumeLists ==
    {<< >>, <<config_volume>>, <<usb_volume>>, <<config_volume, usb_volume>>,
     <<stale_usb_volume, config_volume>>}

K8sVolumeMountLists ==
    {<< >>, <<config_volumemount>>, <<usb_volumemount>>,
     <<config_volumemount, usb_volumemount>>,
     <<stale_usb_volumemount, config_volumemount>>}

\* containers with volume mounts, under two of the security contexts
K8sMountingContainers ==
    {[name |-> n, securityContext |-> sc, volumeMounts |-> vms] :
        n \in ContainerNames,
        sc \in {NoSecurityContext,
                [present |-> TRUE, capabilities |-> TRUE, add_present |-> TRUE,
                 add |-> <<"SYS_NICE", "NET_ADMIN">>, privileged |-> TRUE,
                 other |-> {"runAsUser"}]},
        vms \in K8sVolumeMountLists}

K8sStatefulSets ==
    ApiErrors
    \cup {[containers |-> cs, volumes |-> << >>] :
            cs \in {<< >>} \cup {<<c>> : c \in K8sContainers}
                           \cup {<<c, d>> : c \in K8sContainers, d \in K8sContainers}}
    \cup {[containers |-> cs, volumes |-> vs] :
            cs \in {<<c>> : c \in K8sMountingContainers}
                   \cup {<<c, d>> : c \in K8sMountingContainers,
                                    d \in K8sMountingContainers},
            vs \in K8sVolumeLists}

InitK8s ==
    /\ leader = TRUE
    /\ config = DefaultConfig
    /\ can_connect = FALSE
    /\ pod_ip = ""
    /\ storage = FALSE
    /\ statefulset \in K8sStatefulSets
    /\ relation = NoRelation
    /\ config_file = NoFile
    /\ plan = NoServices
    /\ passes = 0
    /\ fired = << >>
    /\ unit_status = NoStatus
    /\ workload_version_file = VersionFile
    /\ workload_version = Unset
    /\ returned = NoCall
    /\ provider_relations = << >>

\* everything but the StatefulSet and the outcome of the call
K8sFrame ==
    UNCHANGED <<leader, config, can_connect, pod_ip, storage, relation, config_file, plan,
                passes, fired, unit_status, workload_version_file, workload_version,
                provider_relations>>

IsPatchedCalled(container_name) ==
    /\ returned' = [call |-> "is_patched", container_name |-> container_name,
                    result |-> is_patched(statefulset, container_name)]
    /\ statefulset' = statefulset
    /\ K8sFrame

PatchStatefulsetCalled(container_name, replace_ok) ==
    /\ statefulset' = PatchStatefulsetOutcome(statefulset, container_name, replace_ok).statefulset
    /\ returned' = [call |-> "patch_statefulset", container_name |-> container_name,
                    result |-> PatchStatefulsetOutcome(statefulset, container_name,
                                                       replace_ok).result]
    /\ K8sFrame

IsMountedCalled ==
    /\ returned' = [call |-> "is_mounted", container_name |-> CONTAINER_NAME,
                    result |-> IsMountedOutcome(statefulset)]
    /\ statefulset' = statefulset
    /\ K8sFrame

\* the calls of mount stop once the lists hold MaxVolumes entries
MountCalled(replace_ok) ==
    /\ IF statefulset \in ApiErrors THEN TRUE ELSE Len(statefulset.volumes) < MaxVolumes
    /\ statefulset' = MountOutcome(statefulset, replace_ok).statefulset
    /\ returned' = [call |-> "mount", container_name |-> CONTAINER_NAME,
                    result |-> MountOutcome(statefulset, replace_ok).result]
    /\ K8sFrame

UnmountCalled(replace_ok) ==
    /\ statefulset' = UnmountOutcome(statefulset, replace_ok).statefulset
    /\ returned' = [call |-> "unmount", container_name |-> CONTAINER_NAME,
                    result |-> UnmountOutcome(statefulset, replace_ok).result]
    /\ K8sFrame

NextK8s ==
    \/ \E n \in ContainerNames : IsPatchedCalled(n)
    \/ \E n \in ContainerNames, replace_ok \in BOOLEAN : PatchStatefulsetCalled(n, replace_ok)
    \/ IsMountedCalled
    \/ \E replace_ok \in BOOLEAN : MountCalled(replace_ok)
    \/ \E replace_ok \in BOOLEAN : UnmountCalled(replace_ok)

SpecK8s == InitK8s /\ [][NextK8s]_vars

(***************************************************************************)
(* The relation library on its own: the provider publishes into its        *)
(* relations, the requirer of the first relation reads the bag             *)
(***************************************************************************)
\* a record every field of which is within its bounds
ValidArgs ==
    [rfsim_address |-> Some(<<"1", ".", "1", ".", "1", ".", "1">>), sst |-> 1,
     sd |-> Some(12555), band |-> 77,
     dl_freq |-> 2124060000, carrier_bandwidth |-> 106, numerology |-> 1,
     start_subcarrier |-> 529]

\* the values handed to the provider: each field at its bounds and one step outside
PublishArgs ==
    {ValidArgs}
    \cup {[ValidArgs EXCEPT !.rfsim_address = x] :
             x \in {None, Some(<<"1", ".", "1", ".", "1">>),
                    Some(<<"1", "0", ".", "0", ".", "0", ".", "2", "5", "6">>),
                    Some(<<"1", "9", "2", ".", "1", "6", "8", ".", "7", "0", ".",
                           "1", "3", "0">>)}}
    \cup {[ValidArgs EXCEPT !.sst = x] : x \in {-1, 0, 255, 256}}
    \cup {[ValidArgs EXCEPT !.sd = x] :
             x \in {None, Some(-1), Some(0), Some(SD_MAX), Some(SD_MAX + 1)}}
    \cup {[ValidArgs EXCEPT !.band = x] : x \in {0, 1, 102}}
    \cup {[ValidArgs EXCEPT !.dl_freq = x] : x \in {DL_FREQ_MIN - 1, DL_FREQ_MIN}}
    \cup {[ValidArgs EXCEPT !.carrier_bandwidth = x] : x \in {10, 11, 273, 274}}
    \cup {[ValidArgs EXCEPT !.numerology = x] : x \in {-1, 0, 6, 7}}
    \cup {[ValidArgs EXCEPT !.start_subcarrier = x] : x \in {-1, 0}}
    \cup {[ValidArgs EXCEPT !.rfsim_address = None, !.sd = None]}

\* the application data bag nothing was written into
EmptyBag == << >>

\* the bags a relation can hold before the call: the ones of RemoteDatas and bags
\* with a field that is not a decimal integer or lies one step outside its bounds
Bags ==
    {EmptyBag}
    \cup RemoteDatas
    \cup {[FullData(<<"0">>) EXCEPT !.sst = x] :
             x \in {<<"x">>, << >>, <<"0">>, <<"2", "5", "5">>, <<"2", "5", "6">>}}
    \cup {[FullData(<<"0">>) EXCEPT !.sd = x] :
             x \in {<<"x">>, << >>, <<"0">>, StrInt(SD_MAX), StrInt(SD_MAX + 1)}}
    \cup {[FullData(<<"0">>) EXCEPT !.band = x] : x \in {<<"0">>, <<"1">>, <<"-", "1">>}}
    \cup {[FullData(<<"0">>) EXCEPT !.dl_freq = x] :
             x \in {StrInt(DL_FREQ_MIN - 1), StrInt(DL_FREQ_MIN)}}
    \cup {[FullData(<<"0">>) EXCEPT !.carrier_bandwidth = x] :
             x \in {<<"1", "0">>, <<"1", "1">>, <<"2", "7", "3">>, <<"2", "7", "4">>}}
    \cup {[FullData(<<"0">>) EXCEPT !.numerology = x] : x \in {<<"0">>, <<"6">>, <<"7">>}}
    \cup {[FullData(<<"0">>) EXCEPT !.start_subcarrier = x] : x \in {<<"0">>, <<"1", ".", "5">>}}
    \cup {[FullData(<<"0">>) EXCEPT !.rfsim_address = x] :
             x \in {<< >>, <<"1", ".", "1", ".", "1">>, <<"a", "b", "c">>}}
    \cup {[FullData(<<"0">>) EXCEPT !.version = x] : x \in {<<"x">>, << >>}}
    \cup {Without(Without(FullData(<<"0">>), "rfsim_address"), "sd")}

\* the relation as the requirer of the first relation sees it
RequirerView(bags) ==
    IF bags = << >> THEN NoRelation
    ELSE [created |-> TRUE, data |-> bags[1], local_app_data |-> NoLocalAppData]

InitRelation ==
    /\ leader \in BOOLEAN
    /\ provider_relations \in
           {<< >>} \cup {<<b>> : b \in Bags}
                  \cup {<<b, c>> : b \in {EmptyBag, FullData(<<"0">>)},
                                   c \in {EmptyBag, FullData(<<"1">>)}}
    /\ relation = RequirerView(provider_relations)
    /\ config = DefaultConfig
    /\ can_connect = FALSE
    /\ pod_ip = ""
    /\ storage = FALSE
    /\ statefulset = NoStatefulSet
    /\ config_file = NoFile
    /\ plan = NoServices
    /\ passes = 0
    /\ fired = << >>
    /\ unit_status = NoStatus
    /\ workload_version_file = VersionFile
    /\ workload_version = Unset
    /\ returned = NoCall

\* everything but the relations and the outcome of the call
RelationFrame ==
    UNCHANGED <<leader, config, can_connect, pod_ip, storage, statefulset, config_file,
                plan, passes, fired, unit_status, workload_version_file, workload_version>>

\* set_rfsim_information or set_rf_config_information called by the providing unit,
\* with its outcome
Published(call, a, outcome) ==
    /\ provider_relations' = outcome.relations
    /\ relation' = RequirerView(outcome.relations)
    /\ returned' = [call |-> call, args |-> a, result |-> outcome.result]
    /\ RelationFrame

SetRfsimInformationCalled(a) ==
    Published("set_rfsim_information", a,
              PublishOutcome("fiveg_rfsim", leader, provider_relations, a))

SetRfConfigInformationCalled(a) ==
    Published("set_rf_config_information", a,
              PublishOutcome("fiveg_rf_config", leader, provider_relations, a))

GetProviderRfsimInformationCalled ==
    /\ returned' = [call |-> "get_provider_rfsim_information",
                    result |-> get_provider_rfsim_information(relation)]
    /\ UNCHANGED <<relation, provider_relations>>
    /\ RelationFrame

GetProviderRfConfigInformationCalled ==
    /\ returned' = [call |-> "get_provider_rf_config_information",
                    result |-> get_provider_rf_config_information(relation)]
    /\ UNCHANGED <<relation, provider_relations>>
    /\ RelationFrame

NextRelation ==
    \/ \E a \in PublishArgs : SetRfsimInformationCalled(a)
    \/ \E a \in PublishArgs : SetRfConfigInformationCalled(a)
    \/ GetProviderRfsimInformationCalled
    \/ GetProviderRfConfigInformationCalled

SpecRelation == InitRelation /\ [][NextRelation]_vars

(***************************************************************************)
(* The ping action on its own: run in every state of the unit, with every  *)
(* outcome of the command                                                  *)
(***************************************************************************)
ExecOutcomes ==
    {[kind |-> "exit", code |-> c, stdout |-> out] :
        c \in {0, 1, 2},
        out \in {"", "10 packets transmitted, 10 received, 0% packet loss, time 9012ms",
                 "10 packets transmitted, 0 received, 100% packet loss, time 9012ms"}}
    \cup {[kind |-> "timeout"]}

InitPing ==
    /\ leader \in BOOLEAN
    /\ config \in Configs
    /\ can_connect \in BOOLEAN
    /\ relation \in Relations
    /\ plan \in {NoServices, _get_ue_pebble_layer(relation.created)}
    /\ pod_ip = "1.2.3.4"
    /\ storage = TRUE
    /\ statefulset \in StatefulSets
    /\ config_file = NoFile
    /\ passes = 0
    /\ fired = << >>
    /\ unit_status = NoStatus
    /\ workload_version_file = VersionFile
    /\ workload_version = Unset
    /\ returned = NoCall
    /\ provider_relations = << >>

\* the ping action is run on the unit: __init__ observes it only on a leader whose
\* configuration is valid, and without a handler the event is left as it came
PingAction(exec) ==
    /\ returned' = [call |-> "ping", exec |-> exec,
                    outcome |-> IF ConfigureObserved THEN _on_ping_action(exec)
                                ELSE NoOutcome]
    /\ UNCHANGED <<leader, config, can_connect, pod_ip, storage, statefulset, relation,
                   config_file, plan, passes, fired, unit_status, workload_version_file,
                   workload_version, provider_relations>>

NextPing == \E exec \in ExecOutcomes : PingAction(exec)

SpecPing == InitPing /\ [][NextPing]_vars

(***************************************************************************)
(* The configuration validation on its own: CharmConfig.from_charm applied *)
(* to configurations at and around every bound of UEConfig.                *)
(***************************************************************************)
\* the charm configurations `juju config` can set: strings of any length for imsi,
\* key, opc and dnn, any integer for sst and sd
ConfigInputs ==
    [imsi : {"2089301000074", "20893010000748", "208930100007487", "2089301000074871"},
     key : {"5122250214c33e723a5dd523fc145fc", "5122250214c33e723a5dd523fc145fc0",
            "5122250214c33e723a5dd523fc145fc01"},
     opc : {"981d464c7c52eb6e5036234984ad0bc", "981d464c7c52eb6e5036234984ad0bcf",
            "981d464c7c52eb6e5036234984ad0bcf2"},
     dnn : {"", "internet"},
     sst : {Some(0), Some(1), Some(4), Some(5)},
     sd : {Some(-10), Some(-1), Some(0), Some(5), Some(10), Some(18), Some(12555),
           Some(102030), Some(1677721), Some(16777215), Some(16777216)}]

InitConfig ==
    /\ config \in ConfigInputs
    /\ leader = TRUE
    /\ can_connect = TRUE
    /\ relation = NoRelation
    /\ plan = NoServices
    /\ pod_ip = "1.2.3.4"
    /\ storage = TRUE
    /\ statefulset = NoStatefulSet
    /\ config_file = NoFile
    /\ passes = 0
    /\ fired = << >>
    /\ unit_status = NoStatus
    /\ workload_version_file = VersionFile
    /\ workload_version = Unset
    /\ returned = NoCall
    /\ provider_relations = << >>

\* CharmConfig.from_charm(charm): the CharmConfig built, or CharmConfigInvalidError
FromCharmCalled ==
    /\ returned' = [call |-> "from_charm", result |-> from_charm(config)]
    /\ UNCHANGED <<leader, config, can_connect, pod_ip, storage, statefulset, relation,
                   config_file, plan, passes, fired, unit_status, workload_version_file,
                   workload_version, provider_relations>>

NextConfig == FromCharmCalled

SpecConfig == InitConfig /\ [][NextConfig]_vars

(***************************************************************************)
(* The rendering of ue.conf: _configure driven with slice parameters that  *)
(* differ between the charm configuration and the relation data.           *)
(***************************************************************************)
\* valid configurations: sst 1, 2, 4, and sd 18, 102030, 16777215
SliceConfigs ==
    {[DefaultConfig EXCEPT !.sst = Some(t)] : t \in {1, 2, 4}}
    \cup {[DefaultConfig EXCEPT !.sd = Some(d)] : d \in {18, 16777215}}

\* relation data of the provider: sst 0, 3, 255, and sd absent, 0, 15, 16, 255, 256,
\* 12555, 16777215, and a bag that holds the version only
SliceDatas ==
    {[FullData(<<"0">>) EXCEPT !.sst = t] : t \in {<<"0">>, <<"3">>, <<"2", "5", "5">>}}
    \cup {[FullData(<<"0">>) EXCEPT !.sst = <<"3">>, !.sd = d] :
            d \in {<<"0">>, <<"1", "5">>, <<"1", "6">>, <<"2", "5", "5">>, <<"2", "5", "6">>,
                   <<"1", "6", "7", "7", "7", "2", "1", "5">>}}
    \cup {Without([FullData(<<"0">>) EXCEPT !.sst = <<"3">>], "sd")}
    \cup {[version |-> <<"0">>]}

InitRender ==
    /\ leader = TRUE
    /\ config \in SliceConfigs
    /\ can_connect = TRUE
    /\ pod_ip = "1.2.3.4"
    /\ storage = TRUE
    /\ statefulset \in {s \in StatefulSets :
                          /\ s.containers[1].securityContext = NoSecurityContext
                          /\ s.volumes = << >>}
    /\ relation \in {NoRelation}
                    \cup {[created |-> TRUE, data |-> d, local_app_data |-> NoLocalAppData] :
                            d \in SliceDatas}
    /\ config_file = NoFile
    /\ plan = NoServices
    /\ passes = 0
    /\ fired = << >>
    /\ unit_status = NoStatus
    /\ workload_version_file = VersionFile
    /\ workload_version = Unset
    /\ returned = NoCall
    /\ provider_relations = << >>

NextRender ==
    \/ \E c \in SliceConfigs : ConfigChanged(c)
    \/ \E d \in SliceDatas : RelationChanged(d)
    \/ RelationBroken
    \/ \E event \in ConfigureEvents : Configure(event)

SpecRender == InitRender /\ [][NextRender]_vars

(***************************************************************************)
(* The unit with stable inputs: a leader with a valid configuration, a     *)
(* reachable container, a pod IP, attached storage and a StatefulSet the   *)
(* API serves, with no relation or with complete relation data of version  *)
(* LIBAPI.  Juju keeps dispatching update-status (to _configure) and runs  *)
(* collect-status after every hook, which the weak fairness stands for.    *)
(***************************************************************************)
InitLive ==
    /\ leader = TRUE
    /\ config \in SliceConfigs
    /\ can_connect = TRUE
    /\ pod_ip = "1.2.3.4"
    /\ storage = TRUE
    /\ statefulset \in StatefulSets
    /\ relation \in {NoRelation,
                     [created |-> TRUE, data |-> FullData(StrInt(LIBAPI)),
                      local_app_data |-> NoLocalAppData]}
    /\ config_file = NoFile
    /\ plan = NoServices
    /\ passes = 0
    /\ fired = << >>
    /\ unit_status = NoStatus
    /\ workload_version_file \in VersionFiles
    /\ workload_version = Unset
    /\ returned = NoCall
    /\ provider_relations = << >>

NextLive ==
    \/ \E event \in ConfigureEvents : Configure(event)
    \/ CollectStatus

\* a reconciliation pass is taken: the steps of NextLive that count a pass are the
\* dispatches of _configure, enabled while the count is below MaxPasses
PassTaken == passes < MaxPasses /\ passes' = passes + 1

SpecLive ==
    /\ InitLive
    /\ [][NextLive]_vars
    /\ WF_passes(PassTaken)
    /\ WF_vars(CollectStatus)

(***************************************************************************)
(* Properties                                                              *)
(***************************************************************************)
\* a step of the reconciliation handler
IsPass == passes' = passes + 1

\* the calls of a pass that change the StatefulSet, the file or the service
Mutating == {"patch_statefulset", "mount", "unmount", "push", "add_layer", "restart"}

Calls(f) == {f[i] : i \in 1..Len(f)}

Patched == is_patched(statefulset, CONTAINER_NAME) = "True"

\* leader, valid config, reachable container, pod IP: the head of the ladder passes
HeadPasses == leader /\ InvalidFields(config) = {} /\ can_connect /\ pod_ip /= ""

\* the pass that starts in this state gets to the render step
ReachesRender ==
    /\ HeadPasses
    /\ (relation.created =>
            get_provider_rfsim_information(relation).ok
            /\ Truthy(get_provider_rfsim_information(relation).sst))
    /\ storage

Collected == unit_status /= NoStatus

WaitingForRfsim == WaitingStatus("Waiting for RFSIM information")

WaitingForUsb == WaitingStatus("Waiting for USB device to be mounted")

WaitingForStorage == WaitingStatus("Waiting for storage to be attached")

WaitingForPatch == WaitingStatus("Waiting for statefulset to be patched")

\* C1: a reconciliation pass that follows another one with no change of the inputs in
\* between writes no config file, restarts nothing, applies no layer and patches,
\* mounts or unmounts nothing: it leaves StatefulSet, file and plan as they are.
C1_SecondPassIdle ==
    [][(passes >= 1 /\ IsPass) =>
          /\ Calls(fired') \cap Mutating = {}
          /\ statefulset' = statefulset
          /\ config_file' = config_file
          /\ plan' = plan]_vars

C1_Witness ==
    /\ passes = 2 /\ leader /\ fired = <<"replan">>
    /\ config_file.exists /\ plan /= NoServices /\ Patched

\* C2: in a pass that reaches the render step the service is restarted iff the rendered
\* configuration differs from the file on disk (or there is no file), and the layer is
\* applied iff the computed services differ from those of the plan; so a changed
\* definition with unchanged content is applied without a restart.
C2_RestartKeyedOnContent ==
    [][(IsPass /\ ReachesRender) =>
          /\ ("restart" \in Calls(fired')
                <=> ~(config_file.exists /\ config_file.content = _generate_ue_config))
          /\ ("add_layer" \in Calls(fired')
                <=> plan /= _get_ue_pebble_layer(relation.created))]_vars

C2_Witness ==
    /\ passes >= 1 /\ "add_layer" \in Calls(fired) /\ "restart" \notin Calls(fired)

\* C3 (as claimed): a pass writes the config file, applies the service definition or
\* restarts the service if and only if collect-status reports Active; under a version
\* mismatch it does none of these.
C3_ActsIffActive ==
    (passes >= 1 /\ Collected /\ unit_status.name /= "error") =>
        /\ (Calls(fired) \cap {"push", "add_layer", "restart", "replan"} /= {}
              <=> unit_status = ActiveStatus)
        /\ (unit_status = BlockedStatus(VersionMismatchMessage)
              => Calls(fired) \cap {"push", "add_layer", "restart", "replan"} = {})

\* C4 (as claimed): leader, valid config, reachable container, pod IP, storage, patched
\* StatefulSet, and a relation whose data is complete and valid with the provider's
\* version equal to LIBAPI: collect-status reports Active.
C4_AllSatisfiedActive ==
    (/\ Collected /\ HeadPasses /\ storage /\ Patched
     /\ relation.created
     /\ get_provider_rfsim_information(relation).ok
     /\ _get_provider_interface_version(relation) = Some(LIBAPI))
    => unit_status = ActiveStatus

\* C5: a non-leader unit reports exactly Blocked("Scaling is not implemented for this
\* charm") whatever the state, and its handlers change neither the StatefulSet, nor
\* the config file, nor the plan, and issue no call.
C5_NonLeaderInert ==
    [][~leader =>
          /\ (unit_status' /= unit_status /\ unit_status' /= NoStatus
                => unit_status' = BlockedStatus("Scaling is not implemented for this charm"))
          /\ (IsPass => /\ fired' = << >>
                        /\ statefulset' = statefulset
                        /\ config_file' = config_file
                        /\ plan' = plan)]_vars

C5_Witness ==
    /\ ~leader /\ passes >= 1 /\ InvalidFields(config) = {} /\ can_connect
    /\ pod_ip /= "" /\ storage /\ ~Patched
    /\ unit_status = BlockedStatus("Scaling is not implemented for this charm")

\* C6: for a leader unit, an invalid configuration gives Blocked with the validator's
\* message whatever the later conditions; else an unreachable container gives
\* Waiting("Waiting for container to be ready"); else a missing pod IP gives
\* Waiting("Waiting for Pod IP address to be available").
C6_LadderHead ==
    (Collected /\ leader) =>
        /\ (InvalidFields(config) /= {}
              => /\ unit_status.name = "blocked"
                 /\ unit_status.message = InvalidConfigMessage(config))
        /\ (InvalidFields(config) = {} /\ ~can_connect
              => unit_status = WaitingStatus("Waiting for container to be ready"))
        /\ (InvalidFields(config) = {} /\ can_connect /\ pod_ip = ""
              => unit_status = WaitingStatus("Waiting for Pod IP address to be available"))

C6_Witness ==
    /\ leader /\ ~can_connect /\ pod_ip = ""
    /\ unit_status = BlockedStatus("The following configurations are not valid: ['dnn', 'sst']")

\* C7 (as claimed): past the config, container and pod IP checks, missing storage gives
\* Waiting("Waiting for storage to be attached") also when a later check fails.
C7_StorageWins ==
    (Collected /\ HeadPasses /\ ~storage) => unit_status = WaitingForStorage

\* C7 (amended): the storage check is the last one.  Past the config, container and
\* pod IP checks and with storage missing, the status is that of the StatefulSet, USB,
\* relation data or version check when one of these fails, and Waiting("Waiting for
\* storage to be attached") when, without the relation, the StatefulSet is patched
\* and the USB volume mounted.
C7_StorageLast ==
    (Collected /\ HeadPasses /\ ~storage) =>
        /\ (~Patched => unit_status = WaitingForPatch)
        /\ (Patched /\ ~relation.created /\ ~is_mounted(statefulset)
              => unit_status = WaitingForUsb)
        /\ (Patched /\ ~relation.created /\ is_mounted(statefulset)
              => unit_status = WaitingForStorage)
        /\ (Patched /\ relation.created
              /\ (\/ ~get_provider_rfsim_information(relation).ok
                  \/ _get_provider_interface_version(relation) /= Some(LIBAPI))
              => unit_status \in {WaitingForRfsim, BlockedStatus(VersionMismatchMessage)})

C7_Witness ==
    /\ HeadPasses /\ ~storage /\ ~Patched /\ unit_status = WaitingForPatch

\* C8 (as claimed): with the relation, the earlier checks passing and a published
\* provider version other than LIBAPI, the status is Blocked on version mismatch
\* whether or not the other relation fields are complete.
C8_VersionWins ==
    (/\ Collected /\ HeadPasses /\ storage /\ Patched /\ relation.created
     /\ _get_provider_interface_version(relation) /= None
     /\ _get_provider_interface_version(relation) /= Some(LIBAPI))
    => unit_status = BlockedStatus(VersionMismatchMessage)

\* C9: with the relation, the config, container, pod IP and patch checks passing and
\* the provider version equal to LIBAPI, a relation data bag that lacks one of the
\* required fields gives Waiting("Waiting for RFSIM information").
C9_MissingFieldWaits ==
    (/\ Collected /\ HeadPasses /\ Patched /\ relation.created
     /\ _get_provider_interface_version(relation) = Some(LIBAPI)
     /\ \E k \in RequiredKeys : k \notin DOMAIN relation.data)
    => unit_status = WaitingForRfsim

C9_Witness ==
    /\ HeadPasses /\ Patched /\ storage /\ relation.created
    /\ relation.data = Without(FullData(<<"0">>), "band")
    /\ unit_status = WaitingForRfsim

\* C10: without the relation and past the config, container, pod IP and patch checks,
\* the status is Waiting("Waiting for USB device to be mounted") exactly when the USB
\* volume is not mounted, and Active when it is mounted and storage is attached.
C10_UsbCheck ==
    (Collected /\ HeadPasses /\ Patched /\ ~relation.created) =>
        /\ (unit_status = WaitingForUsb <=> ~is_mounted(statefulset))
        /\ (is_mounted(statefulset) /\ storage => unit_status = ActiveStatus)

C10_Witness ==
    /\ HeadPasses /\ Patched /\ ~relation.created /\ is_mounted(statefulset) /\ storage
    /\ unit_status = ActiveStatus

\* the rendering of the current inputs, read off the configuration and the data bag
ExpectedUeConfig ==
    <<config.imsi, config.key, config.opc, config.dnn,
      IF relation.created THEN Join(relation.data.sst) ELSE ToString(config.sst[1]),
      IF relation.created
      THEN (IF "sd" \in DOMAIN relation.data
            THEN "0x" \o HexDigits(DecimalValue(relation.data.sd))
            ELSE "0xffffff")
      ELSE "0x" \o HexDigits(IF config.sd = None THEN 102030 ELSE config.sd[1])>>

\* C11: after a reconciliation pass that reaches the render step, whether the file was
\* absent or held other content, /tmp/conf/ue.conf exists and holds the rendering of
\* the current inputs: imsi, key, opc and dnn of the configuration, sst and sd of the
\* relation data when the relation is established (of the configuration otherwise).
C11_FileIsRendering ==
    [][(IsPass /\ ReachesRender) =>
          config_file' = [exists |-> TRUE, content |-> ExpectedUeConfig]]_vars

C11_Witness ==
    /\ passes = 1 /\ relation.created /\ fired = <<"push", "add_layer", "replan", "restart">>
    /\ Patched /\ config_file.exists
    /\ config_file.content[5] = "1" /\ config_file.content[6] = "0x310b"

\* the calls of a pass on the config file and on Pebble
FileAndPebbleCalls == {"push", "add_layer", "replan", "restart"}

\* C12: with the relation established and a required field missing from the provider's
\* data, a reconciliation pass writes no config file, applies no layer and restarts
\* nothing: the config file and the plan are after the pass what they were before.
C12_IncompleteDataFrame ==
    [][(IsPass /\ relation.created /\ \E k \in RequiredKeys : k \notin DOMAIN relation.data) =>
          /\ config_file' = config_file
          /\ plan' = plan
          /\ Calls(fired') \cap FileAndPebbleCalls = {}]_vars

C12_Witness ==
    /\ passes = 1 /\ HeadPasses /\ storage /\ relation.created
    /\ "sst" \notin DOMAIN relation.data
    /\ fired = <<"unmount">> /\ config_file.exists /\ plan /= NoServices

\* C13: a reconciliation pass run while the configuration is invalid, or the container
\* unreachable, or the pod IP unavailable, ends silently and changes nothing: it makes
\* no call (patch, mount, unmount, push, layer, restart), raises no error and leaves
\* StatefulSet, config file and plan as they are.
C13_EarlyGuardsInert ==
    [][(IsPass /\ (InvalidFields(config) /= {} \/ ~can_connect \/ pod_ip = "")) =>
          /\ fired' = << >>
          /\ unit_status'.name /= "error"
          /\ statefulset' = statefulset
          /\ config_file' = config_file
          /\ plan' = plan]_vars

C13_Witness ==
    /\ passes >= 1 /\ leader /\ InvalidFields(config) = {} /\ can_connect /\ pod_ip = ""
    /\ storage /\ ~Patched /\ ~is_mounted(statefulset) /\ fired = << >>

\* how many times the call c occurs in the calls f
Count(f, c) == Cardinality({i \in 1..Len(f) : f[i] = c})

\* C14: in a pass that gets past the config, container and pod IP guards, the
\* StatefulSet is patched iff is_patched is false, the USB volume is mounted iff there
\* is no relation and it is not mounted, unmounted iff there is a relation and it is
\* mounted; each call is made at most once, never both mount and unmount, also when
\* the pass later returns on incomplete relation data or absent storage; after the
\* pass the StatefulSet is patched and USB is mounted iff there is no relation.
C14_NeededK8sMutations ==
    [][(IsPass /\ HeadPasses) =>
          /\ ("patch_statefulset" \in Calls(fired')
                <=> is_patched(statefulset, CONTAINER_NAME) = "False")
          /\ ("mount" \in Calls(fired') <=> ~relation.created /\ ~is_mounted(statefulset))
          /\ ("unmount" \in Calls(fired') <=> relation.created /\ is_mounted(statefulset))
          /\ \A c \in {"patch_statefulset", "mount", "unmount"} : Count(fired', c) <= 1
          /\ ~("mount" \in Calls(fired') /\ "unmount" \in Calls(fired'))
          /\ is_patched(statefulset', CONTAINER_NAME) = "True"
          /\ (is_mounted(statefulset') <=> ~relation.created)]_vars

C14_Witness ==
    /\ passes = 1 /\ HeadPasses /\ ~storage /\ ~relation.created
    /\ fired = <<"patch_statefulset", "mount">>
    /\ Patched /\ is_mounted(statefulset)

\* the command line of simulation mode, written out from the strings of the data bag d
ExpectedSimulationCommand(d) ==
    "/opt/oai-gnb/bin/nr-uesoftmodem -O /tmp/conf/ue.conf --rfsim"
        \o " -r " \o Join(d.carrier_bandwidth)
        \o " --numerology " \o Join(d.numerology)
        \o " -C " \o Join(d.dl_freq)
        \o " --ssb " \o Join(d.start_subcarrier)
        \o " --band " \o Join(d.band)
        \o " --log_config.global_log_options level,nocolor,time"
        \o " --rfsimulator.serveraddr " \o Join(d.rfsim_address)

\* C15: a service definition applied by a pass while the relation is established has a
\* command line with --rfsim, with --rfsimulator.serveraddr followed by the
\* rfsim_address of the relation data, and with -r, --numerology, -C, --ssb and --band
\* carrying its carrier_bandwidth, numerology, dl_freq, start_subcarrier and band;
\* its environment is TZ=UTC and its startup is enabled.
C15_SimulationCommand ==
    [][(IsPass /\ relation.created /\ "add_layer" \in Calls(fired')) =>
          /\ plan'.ue.command = ExpectedSimulationCommand(relation.data)
          /\ plan'.ue.environment = [TZ |-> "UTC"]
          /\ plan'.ue.startup = "enabled"]_vars

C15_Witness ==
    /\ passes = 1 /\ relation.created /\ "add_layer" \in Calls(fired)
    /\ plan.ue.command =
         "/opt/oai-gnb/bin/nr-uesoftmodem -O /tmp/conf/ue.conf --rfsim -r 106 --numerology 1 -C 2124060000 --ssb 529 --band 78 --log_config.global_log_options level,nocolor,time --rfsimulator.serveraddr 1.1.1.1"

\* the keys of the RF parameters in the provider's data bag
RFParameterKeys == {"carrier_bandwidth", "numerology", "dl_freq", "start_subcarrier", "band"}

\* the command line without the simulator, written out from the strings of the data bag d
ExpectedRadioCommand(d) ==
    "/opt/oai-gnb/bin/nr-uesoftmodem -O /tmp/conf/ue.conf"
        \o " -r " \o Join(d.carrier_bandwidth)
        \o " --numerology " \o Join(d.numerology)
        \o " -C " \o Join(d.dl_freq)
        \o " --ssb " \o Join(d.start_subcarrier)
        \o " --band " \o Join(d.band)
        \o " -E --log_config.global_log_options level,nocolor,time"

\* C16 (as claimed): whenever a pass applies a service definition, in simulation mode
\* or not, the provider's relation data holds the five RF parameters and the flags -r,
\* --numerology, -C, --ssb and --band of the command line carry them; no definition
\* is applied with an unresolved RF parameter.
C16_ResolvedParameters ==
    [][(IsPass /\ "add_layer" \in Calls(fired')) =>
          /\ relation.created
          /\ RFParameterKeys \subseteq DOMAIN relation.data
          /\ plan'.ue.command \in {ExpectedSimulationCommand(relation.data),
                                   ExpectedRadioCommand(relation.data)}]_vars

\* C17 (as claimed): a pass that gets past the early guards while the relation is
\* established leaves the interface version of the requirer (LIBAPI) in this
\* application's data bag of the relation.
C17_VersionRepublished ==
    [][(IsPass /\ HeadPasses /\ relation.created) =>
          /\ "version" \in DOMAIN relation'.local_app_data
          /\ relation'.local_app_data["version"] = <<ToString(LIBAPI)>>]_vars

\* C18: a collect-status run that ends Active has set the workload version to the
\* content of /etc/workload-version, or to the empty string when the container has no
\* such file; a run that ends in any other status has set no workload version.
C18_WorkloadVersion ==
    Collected =>
        /\ (unit_status = ActiveStatus =>
                /\ workload_version.set
                /\ workload_version.version =
                     IF workload_version_file = NoVersionFile THEN "" ELSE "2.2.0")
        /\ (unit_status /= ActiveStatus => ~workload_version.set)

C18_Witness ==
    /\ unit_status = ActiveStatus /\ workload_version_file = NoVersionFile
    /\ workload_version = [set |-> TRUE, version |-> ""]

\* the securityContext of the first container of that name
SecurityContextOf(sts, container_name) ==
    sts.containers[ContainerIndex(sts, container_name)].securityContext

\* C19 (as claimed): is_patched returns true only if the security context of the named
\* container has NET_ADMIN in its capability-add list and the privileged flag set; it
\* returns false, raising nothing, when the security context, the capabilities object
\* or the capability-add list is absent; it raises K8sError when the StatefulSet
\* cannot be fetched or holds no container of that name.
C19_IsPatchedContract ==
    returned.call = "is_patched" =>
        /\ (returned.result = "True" =>
                /\ Located(statefulset, returned.container_name)
                /\ InSeq("NET_ADMIN", SecurityContextOf(statefulset, returned.container_name).add)
                /\ SecurityContextOf(statefulset, returned.container_name).privileged)
        /\ ((/\ Located(statefulset, returned.container_name)
             /\ (\/ ~SecurityContextOf(statefulset, returned.container_name).present
                 \/ ~SecurityContextOf(statefulset, returned.container_name).capabilities
                 \/ ~SecurityContextOf(statefulset, returned.container_name).add_present))
              => returned.result = "False")
        /\ (~Located(statefulset, returned.container_name) => returned.result = "K8sError")

\* C20 (as claimed): after a successful patch_statefulset, is_patched is true; a patch of
\* a StatefulSet on which is_patched is already true writes back the object it read;
\* when the StatefulSet or the container cannot be located the call raises K8sError
\* and writes nothing.
C20_PatchIdempotent ==
    [][returned'.call = "patch_statefulset" =>
          /\ (returned'.result = "None"
                => is_patched(statefulset', returned'.container_name) = "True")
          /\ (returned'.result = "None"
                /\ is_patched(statefulset, returned'.container_name) = "True"
                => statefulset' = statefulset)
          /\ (~Located(statefulset, returned'.container_name)
                => returned'.result = "K8sError" /\ statefulset' = statefulset)]_vars

\* the pod spec of the fetched StatefulSet holds the USB host-path volume entry
HoldsUsbVolume(sts) ==
    \E i \in 1..Len(sts.volumes) : sts.volumes[i] = usb_volume

\* the first container named ue of the fetched StatefulSet holds the USB mount entry
HoldsUsbVolumeMount(sts) ==
    \E i \in 1..Len(sts.containers) :
        /\ sts.containers[i].name = CONTAINER_NAME
        /\ \A j \in 1..(i - 1) : sts.containers[j].name /= CONTAINER_NAME
        /\ \E k \in 1..Len(sts.containers[i].volumeMounts) :
               sts.containers[i].volumeMounts[k] = usb_volumemount

HoldsBoth(sts) ==
    IF sts \in ApiErrors THEN FALSE ELSE HoldsUsbVolume(sts) /\ HoldsUsbVolumeMount(sts)

\* C21: is_mounted() answers true exactly when the pod spec holds the USB host-path
\* volume and the container ue holds the USB volume mount at the same time; on a
\* fetched StatefulSet with a container ue that holds only one of the two, or
\* neither, it answers false.
C21_MountedIffBoth ==
    returned.call = "is_mounted" =>
        /\ returned.result = "True" <=> HoldsBoth(statefulset)
        /\ Located(statefulset, CONTAINER_NAME) /\ ~HoldsBoth(statefulset)
               => returned.result = "False"

\* is_mounted() answered false on a pod spec that holds the USB volume while the
\* container holds other mounts only
C21_Witness ==
    /\ returned.call = "is_mounted"
    /\ returned.result = "False"
    /\ Located(statefulset, CONTAINER_NAME)
    /\ HoldsUsbVolume(statefulset)
    /\ ~HoldsUsbVolumeMount(statefulset)
    /\ statefulset.containers[ContainerIndex(statefulset, CONTAINER_NAME)].volumeMounts
           /= << >>

\* the entries of a list that are not named usb, in their order
NotNamedUsb(seq) ==
    LET other(e) == e.name /= "usb"
    IN SelectSeq(seq, other)

\* between sts and after, nothing differs but the volume mounts of the first
\* container named ue and the volumes of the pod spec
OnlyUsbListsDiffer(sts, after) ==
    LET i == ContainerIndex(sts, CONTAINER_NAME)
    IN /\ DOMAIN after = DOMAIN sts
       /\ Len(after.containers) = Len(sts.containers)
       /\ \A j \in 1..Len(sts.containers) :
              IF j = i
              THEN /\ DOMAIN after.containers[j] = DOMAIN sts.containers[j]
                   /\ after.containers[j].name = sts.containers[j].name
                   /\ after.containers[j].securityContext = sts.containers[j].securityContext
              ELSE after.containers[j] = sts.containers[j]

\* C22: a call of mount() that returns appends exactly the USB volume to the volumes of
\* the pod spec and exactly the USB mount to the volume mounts of container ue, and a
\* call of unmount() that returns removes exactly the entries named usb from both
\* lists; every other entry keeps its place, and no other container or field of the
\* StatefulSet changes.  is_mounted() holds after mount and does not after unmount.
C22_MountFrame ==
    [][LET i == ContainerIndex(statefulset, CONTAINER_NAME)
       IN /\ returned'.call = "mount" /\ returned'.result = "None"
              => /\ statefulset'.volumes = statefulset.volumes \o <<usb_volume>>
                 /\ statefulset'.containers[i].volumeMounts
                        = statefulset.containers[i].volumeMounts \o <<usb_volumemount>>
                 /\ OnlyUsbListsDiffer(statefulset, statefulset')
                 /\ IsMountedOutcome(statefulset') = "True"
          /\ returned'.call = "unmount" /\ returned'.result = "None"
              => /\ statefulset'.volumes = NotNamedUsb(statefulset.volumes)
                 /\ statefulset'.containers[i].volumeMounts
                        = NotNamedUsb(statefulset.containers[i].volumeMounts)
                 /\ OnlyUsbListsDiffer(statefulset, statefulset')
                 /\ IsMountedOutcome(statefulset') = "False"]_vars

\* mount() returned on a pod that held another volume and another mount, next to a
\* second container: the USB entries follow the ones that were there
C22_Witness ==
    /\ returned.call = "mount"
    /\ returned.result = "None"
    /\ Len(statefulset.containers) = 2
    /\ statefulset.volumes = <<config_volume, usb_volume>>
    /\ statefulset.containers[ContainerIndex(statefulset, CONTAINER_NAME)].volumeMounts
           = <<config_volumemount, usb_volumemount>>

\* how many entries of a list are named usb
NamedUsb(seq) == Len(seq) - Len(NotNamedUsb(seq))

\* C23: mount() and unmount() are idempotent.  A call of mount() that returns, on a pod
\* template with at most one volume and one mount named usb, leaves at most one of
\* each; a call of unmount() on a fetched template with a container ue and no entry
\* named usb, whose replace is accepted, returns and leaves the template as it was.
C23_UsbIdempotent ==
    [][LET i == ContainerIndex(statefulset, CONTAINER_NAME)
       IN /\ (/\ returned'.call = "mount" /\ returned'.result = "None"
              /\ NamedUsb(statefulset.volumes) <= 1
              /\ NamedUsb(statefulset.containers[i].volumeMounts) <= 1)
              => /\ NamedUsb(statefulset'.volumes) <= 1
                 /\ NamedUsb(statefulset'.containers[i].volumeMounts) <= 1
          /\ (/\ returned'.call = "unmount" /\ returned'.result /= "K8sError"
              /\ Located(statefulset, CONTAINER_NAME)
              /\ NamedUsb(statefulset.volumes) = 0
              /\ NamedUsb(statefulset.containers[i].volumeMounts) = 0)
              => /\ returned'.result = "None"
                 /\ statefulset' = statefulset]_vars

PublishCalls == {"set_rfsim_information", "set_rf_config_information"}

\* the relation a publishing call writes into
RelationNameOf(call) ==
    IF call = "set_rfsim_information" THEN "fiveg_rfsim" ELSE "fiveg_rf_config"

\* the values a satisfy the schema: a well-formed address (which fiveg_rf_config lets
\* absent) and every number within its bounds
WithinSchema(call, a) ==
    /\ IF a.rfsim_address = None THEN call = "set_rf_config_information"
       ELSE IsIPAddress(a.rfsim_address[1])
    /\ a.sst \in 0..255
    /\ (a.sd /= None => a.sd[1] >= 0 /\ a.sd[1] <= 16777215)
    /\ a.band > 0
    /\ a.dl_freq >= 410000000
    /\ a.carrier_bandwidth \in 11..273
    /\ a.numerology \in 0..6
    /\ a.start_subcarrier >= 0

\* C24: a provider publish fails with the leader error when the unit is not leader,
\* else with the relation error when no relation of that name exists, else with the
\* data error when the values violate the schema; a publish that fails leaves every
\* relation data bag as it was.
C24_PublishFailures ==
    [][returned'.call \in PublishCalls =>
          /\ ~leader
                => returned'.result = "Unit must be leader to set application relation data."
          /\ leader /\ provider_relations = << >>
                => returned'.result
                     = "Relation " \o RelationNameOf(returned'.call) \o " not created yet."
          /\ leader /\ provider_relations /= << >>
               /\ ~WithinSchema(returned'.call, returned'.args)
                => returned'.result = "Invalid relation data"
          /\ returned'.result /= "None"
                => provider_relations' = provider_relations /\ relation' = relation]_vars

\* a leader published values outside the schema into two relations, one of them
\* holding data: the call failed on the data
C24_Witness ==
    /\ returned.call = "set_rfsim_information"
    /\ returned.result = "Invalid relation data"
    /\ leader
    /\ Len(provider_relations) = 2
    /\ provider_relations[1] = FullData(<<"0">>)
    /\ returned.args.carrier_bandwidth = 274

\* the key k of the bag is as it was before the call: absent, or with its old value
KeyUntouched(old, new, k) ==
    /\ k \in DOMAIN new <=> k \in DOMAIN old
    /\ k \in DOMAIN old => new[k] = old[k]

\* the bag holds the library version and the decimal string of each value of a
HoldsPublished(old, new, a) ==
    /\ Join(new.version) = ToString(LIBAPI)
    /\ Join(new.sst) = ToString(a.sst)
    /\ Join(new.band) = ToString(a.band)
    /\ Join(new.dl_freq) = ToString(a.dl_freq)
    /\ Join(new.carrier_bandwidth) = ToString(a.carrier_bandwidth)
    /\ Join(new.numerology) = ToString(a.numerology)
    /\ Join(new.start_subcarrier) = ToString(a.start_subcarrier)
    /\ IF a.rfsim_address /= None THEN new.rfsim_address = a.rfsim_address[1]
       ELSE KeyUntouched(old, new, "rfsim_address")
    /\ IF a.sd /= None THEN Join(new.sd) = ToString(a.sd[1])
       ELSE KeyUntouched(old, new, "sd")

\* C25: a provider publish that succeeds writes, into the provider application data
\* of every relation of that name, the library version and the decimal string of each
\* value supplied; for an optional value that is absent (sd; rfsim_address in
\* fiveg_rf_config) it writes no key, so that key of the bag is as it was.
C25_PublishWrites ==
    [][returned'.call \in PublishCalls /\ returned'.result = "None" =>
          /\ Len(provider_relations') = Len(provider_relations)
          /\ \A i \in 1..Len(provider_relations) :
                 HoldsPublished(provider_relations[i], provider_relations'[i],
                                returned'.args)]_vars

\* fiveg_rf_config published a record without sd and without address into two
\* relations: the second bag holds neither key
C25_Witness ==
    /\ returned.call = "set_rf_config_information"
    /\ returned.result = "None"
    /\ returned.args.sd = None /\ returned.args.rfsim_address = None
    /\ Len(provider_relations) = 2
    /\ DOMAIN provider_relations[2]
          = {"version", "sst", "band", "dl_freq", "carrier_bandwidth", "numerology",
             "start_subcarrier"}

\* the bag holds the key with a decimal integer of at least lo
DecimalAtLeast(d, k, lo) ==
    /\ k \in DOMAIN d
    /\ d[k] /= << >>
    /\ \A i \in 1..Len(d[k]) : d[k][i] \in Digits
    /\ DecimalValue(d[k]) >= lo

\* the bag holds the key with a decimal integer between lo and hi
DecimalWithin(d, k, lo, hi) ==
    DecimalAtLeast(d, k, lo) /\ DecimalValue(d[k]) <= hi

\* the bags a record is to be read from: every required field a decimal integer
\* within its bounds; address_required tells the two libraries apart
Readable(rel, address_required) ==
    /\ rel.created
    /\ DecimalAtLeast(rel.data, "version", 0)
    /\ DecimalWithin(rel.data, "sst", 0, 255)
    /\ "sd" \in DOMAIN rel.data => DecimalWithin(rel.data, "sd", 0, 16777215)
    /\ DecimalAtLeast(rel.data, "band", 1)
    /\ DecimalAtLeast(rel.data, "dl_freq", 410000000)
    /\ DecimalWithin(rel.data, "carrier_bandwidth", 11, 273)
    /\ DecimalWithin(rel.data, "numerology", 0, 6)
    /\ DecimalAtLeast(rel.data, "start_subcarrier", 0)
    /\ IF "rfsim_address" \in DOMAIN rel.data THEN IsIPAddress(rel.data.rfsim_address)
       ELSE ~address_required

\* the typed record of a readable bag: every number, and sd when the bag holds one
TypedNumbers(d, r) ==
    /\ r.version = Some(DecimalValue(d.version))
    /\ r.sst = Some(DecimalValue(d.sst))
    /\ r.sd = IF "sd" \in DOMAIN d THEN Some(DecimalValue(d.sd)) ELSE None
    /\ r.band = Some(DecimalValue(d.band))
    /\ r.dl_freq = Some(DecimalValue(d.dl_freq))
    /\ r.carrier_bandwidth = Some(DecimalValue(d.carrier_bandwidth))
    /\ r.numerology = Some(DecimalValue(d.numerology))
    /\ r.start_subcarrier = Some(DecimalValue(d.start_subcarrier))

Recovers(r, a) ==
    /\ r.ok
    /\ r.version = Some(LIBAPI)
    /\ Some(r.rfsim_address) = a.rfsim_address
    /\ r.sst = Some(a.sst)
    /\ r.sd = a.sd
    /\ r.band = Some(a.band)
    /\ r.dl_freq = Some(a.dl_freq)
    /\ r.carrier_bandwidth = Some(a.carrier_bandwidth)
    /\ r.numerology = Some(a.numerology)
    /\ r.start_subcarrier = Some(a.start_subcarrier)

\* C27: once set_rfsim_information has succeeded on a record with every field
\* supplied, the read of the requirer on that relation returns a record each field of
\* which equals the value published, with version LIBAPI; so it does for a record
\* without sd when the bag held no sd before.
C27_RoundTrip ==
    [][/\ returned'.call = "set_rfsim_information"
       /\ returned'.result = "None"
       /\ returned'.args.sd /= None \/ "sd" \notin DOMAIN provider_relations[1]
       => Recovers(get_provider_rfsim_information(relation'), returned'.args)]_vars

\* a record at the bounds of sd and dl_freq was published and the relation of the
\* requirer holds it
C27_Witness ==
    /\ returned.call = "set_rfsim_information"
    /\ returned.result = "None"
    /\ returned.args = [ValidArgs EXCEPT !.sd = Some(SD_MAX)]
    /\ relation.created
    /\ relation.data.sd = <<"1", "6", "7", "7", "7", "2", "1", "5">>

\* the ping action ran on a unit whose handler is observed (a leader with a valid
\* configuration)
PingHandled == returned.call = "ping" /\ leader /\ InvalidFields(config) = {}

ServiceRegistered == "ue" \in DOMAIN plan

\* C28: when the handler of the ping action runs and the container cannot be reached,
\* the action fails with "Container is not ready", whether or not the service is
\* registered; when the container is reached and the service ue is not registered, it
\* fails with "UE service is not ready"; in both cases no command is executed and no
\* results are set.
C28_PingPreconditions ==
    PingHandled =>
        /\ ~can_connect
              => /\ returned.outcome.failed
                 /\ returned.outcome.message = "Container is not ready"
                 /\ returned.outcome.executed = << >>
                 /\ returned.outcome.results = None
        /\ can_connect /\ ~ServiceRegistered
              => /\ returned.outcome.failed
                 /\ returned.outcome.message = "UE service is not ready"
                 /\ returned.outcome.executed = << >>
                 /\ returned.outcome.results = None

\* the action ran with neither the container nor the service ready: the container
\* is the one reported
C28_Witness ==
    /\ PingHandled
    /\ ~can_connect /\ ~ServiceRegistered
    /\ returned.outcome.message = "Container is not ready"

\* C29: when the handler runs with the container reached and the service registered,
\* the command ping -I oaitun_ue1 8.8.8.8 -c 10 is executed once; on exit code zero the
\* action sets the results {success: "true", result: stdout} and does not fail; on a
\* non-zero exit code it fails with "Failed to execute simulation: " followed by the
\* stdout and sets no results.
C29_PingOutcome ==
    PingHandled /\ can_connect /\ ServiceRegistered =>
        /\ returned.outcome.executed
              = << <<"ping", "-I", "oaitun_ue1", "8.8.8.8", "-c", "10">> >>
        /\ returned.exec.kind = "exit" /\ returned.exec.code = 0
              => /\ ~returned.outcome.failed
                 /\ returned.outcome.results
                       = Some([success |-> "true", result |-> returned.exec.stdout])
        /\ returned.exec.kind = "exit" /\ returned.exec.code /= 0
              => /\ returned.outcome.failed
                 /\ returned.outcome.message
                       = "Failed to execute simulation: " \o returned.exec.stdout
                 /\ returned.outcome.results = None

\* the ping lost every packet and ended with exit code 1: the action failed with the
\* stdout in its message
C29_Witness ==
    /\ PingHandled /\ can_connect /\ ServiceRegistered
    /\ returned.exec.kind = "exit" /\ returned.exec.code = 1
    /\ returned.outcome.message
          = "Failed to execute simulation: "
              \o "10 packets transmitted, 0 received, 100% packet loss, time 9012ms"

\* C30: every run of the ping action, on every unit and for every outcome of the
\* command, ends either failed with a message or with results set, never with both
\* or neither, and raises nothing.
C30_PingTerminal ==
    returned.call = "ping" =>
        /\ returned.outcome.raised = ""
        /\ (returned.outcome.failed /\ returned.outcome.message /= "")
              /= (returned.outcome.results /= None)

----------------------------------------------------------------------------
\* the values of sd whose decimal representation has an even number of digits,
\* among 0..16777215
EvenDigitSd(n) ==
    \/ n >= 10 /\ n <= 99
    \/ n >= 1000 /\ n <= 9999
    \/ n >= 100000 /\ n <= 999999
    \/ n >= 10000000 /\ n <= 16777215

\* the fields of a configuration outside what UEConfig accepts
Violating(c) ==
    {f \in {"imsi"} : Len(c.imsi) \notin {14, 15}}
    \cup {f \in {"key"} : Len(c.key) /= 32}
    \cup {f \in {"opc"} : Len(c.opc) /= 32}
    \cup {f \in {"dnn"} : c.dnn = ""}
    \cup {f \in {"sst"} : c.sst[1] \notin 1..4}
    \cup {f \in {"sd"} : ~EvenDigitSd(c.sd[1])}

\* the quoted names of a set of fields, in lexicographic order, comma separated
RECURSIVE Listing(_, _, _)
Listing(names, fs, first) ==
    IF names = << >> THEN ""
    ELSE IF Head(names) \in fs
         THEN (IF first THEN "" ELSE ", ") \o "'" \o Head(names) \o "'"
                  \o Listing(Tail(names), fs, FALSE)
         ELSE Listing(Tail(names), fs, first)

\* C31: from_charm succeeds exactly when imsi has 14 or 15 characters, key and opc
\* have 32, dnn is not empty, sst is in 1..4 and sd is in 0..16777215 with an even
\* number of decimal digits; otherwise CharmConfigInvalidError carries "The following
\* configurations are not valid: [...]" naming exactly the violating fields, each
\* once, in lexicographic order.
C31_FromCharm ==
    (returned /= NoCall /\ returned.call = "from_charm") =>
        /\ returned.result.ok <=> Violating(config) = {}
        /\ returned.result.ok =>
               /\ returned.result.imsi = config.imsi
               /\ returned.result.key = config.key
               /\ returned.result.opc = config.opc
               /\ returned.result.dnn = config.dnn
               /\ returned.result.sst = config.sst
               /\ returned.result.sd = config.sd
        /\ ~returned.result.ok =>
               returned.result.msg =
                   "The following configurations are not valid: ["
                       \o Listing(<<"dnn", "imsi", "key", "opc", "sd", "sst">>,
                                  Violating(config), TRUE) \o "]"

C31_Witness ==
    /\ returned /= NoCall
    /\ returned.call = "from_charm"
    /\ ~returned.result.ok
    /\ Violating(config) = {"imsi", "dnn", "sst", "sd"}
    /\ config.sd = Some(12555)
    /\ returned.result.msg
           = "The following configurations are not valid: ['dnn', 'imsi', 'sd', 'sst']"

----------------------------------------------------------------------------
\* hex() of the slice differentiators that occur, written out
HexTable ==
    (0 :> "0x0") @@ (15 :> "0xf") @@ (16 :> "0x10") @@ (18 :> "0x12") @@ (255 :> "0xff")
        @@ (256 :> "0x100") @@ (12555 :> "0x310b") @@ (102030 :> "0x18e8e")
        @@ (16777215 :> "0xffffff")

\* a pass that writes ue.conf
Writes == IsPass /\ InSeq("push", fired')

\* C32: get_sd_as_hex gives "0xffffff" for an absent slice differentiator and the
\* lowercase 0x-prefixed hexadecimal without padding for a present one (18 gives
\* "0x12", 12555 gives "0x310b"), so that the configuration written carries 0xffffff
\* exactly when the resolved slice differentiator is absent or is 16777215.
C32_SdAsHex ==
    [][Writes =>
          LET sd == _get_sd
              written == config_file'.content[6]
          IN /\ sd = None => written = "0xffffff"
             /\ sd /= None => sd[1] \in DOMAIN HexTable /\ written = HexTable[sd[1]]
             /\ written = "0xffffff" <=> (sd = None \/ sd = Some(16777215))]_vars

C32_Witness ==
    /\ InSeq("push", fired)
    /\ _get_sd = Some(18)
    /\ config_file.content[6] = "0x12"

----------------------------------------------------------------------------
\* a pass that reaches the rendering of ue.conf: _configure_pebble, which follows it,
\* always ends in a restart or a replan
Renders == IsPass /\ (InSeq("restart", fired') \/ InSeq("replan", fired'))

\* the slice type and differentiator of the provider's data bag, as ue.conf shows them
RelationSlice ==
    <<Join(relation.data.sst),
      IF "sd" \in DOMAIN relation.data THEN HexTable[DecimalValue(relation.data.sd)]
      ELSE "0xffffff">>

\* the slice type and differentiator of the charm configuration, as ue.conf shows them
ConfigSlice == <<ToString(config.sst[1]), HexTable[config.sd[1]]>>

\* C34: in every pass that renders the configuration the slice type and the slice
\* differentiator both come from the provider's relation data when the relation
\* exists (an absent sd as 0xffffff, the configured sst and sd ignored) and both from
\* the charm configuration when it does not.
C34_SliceSource ==
    [][Renders =>
          /\ config_file'.exists
          /\ SubSeq(config_file'.content, 5, 6)
                 = IF relation.created THEN RelationSlice ELSE ConfigSlice]_vars

C34_Witness ==
    /\ InSeq("push", fired)
    /\ relation.created
    /\ "sd" \notin DOMAIN relation.data
    /\ config.sst = Some(2)
    /\ config.sd = Some(102030)
    /\ SubSeq(config_file.content, 5, 6) = <<"3", "0xffffff">>

----------------------------------------------------------------------------
\* C38: ue.conf is never written with empty content: in every pass that reaches the
\* rendering the slice type is available and not zero (by the check of the relation
\* data when the relation exists, by the bound 1..4 of the configuration otherwise),
\* so _generate_ue_config never returns the empty string to the handler.
C38_NeverEmpty ==
    [][Renders =>
          /\ Truthy(_get_sst)
          /\ _generate_ue_config /= << >>
          /\ config_file'.exists
          /\ config_file'.content /= << >>]_vars

C38_Witness ==
    /\ InSeq("push", fired)
    /\ relation.created
    /\ relation.data.sst = <<"2", "5", "5">>
    /\ config_file.content /= << >>
    /\ config_file.content[5] = "255"

----------------------------------------------------------------------------
StatefulSetCalls == {"patch_statefulset", "mount", "unmount"}

ServiceCalls == {"add_layer", "replan", "restart"}

\* in the sequence f of calls every call of the set first comes before every call of
\* the set later
Precede(f, first, later) ==
    \A i, j \in 1..Len(f) : (f[i] \in first /\ f[j] \in later) => i < j

\* C35: inside one pass the StatefulSet patch and the USB mount or unmount come before
\* the write of the config file and before the service calls, and the write comes
\* before the service definition is applied, replanned or restarted; so whenever the
\* pass starts or restarts the service, ue.conf exists and holds the rendering of the
\* current inputs.
C35_PassOrder ==
    [][IsPass =>
          /\ Precede(fired', StatefulSetCalls, {"push"} \cup ServiceCalls)
          /\ Precede(fired', {"push"}, ServiceCalls)
          /\ Calls(fired') \cap ServiceCalls /= {}
                => config_file' = [exists |-> TRUE, content |-> ExpectedUeConfig]]_vars

C35_Witness ==
    /\ passes = 1
    /\ fired = <<"patch_statefulset", "mount", "push", "add_layer", "replan", "restart">>
    /\ config_file = [exists |-> TRUE, content |-> ExpectedUeConfig]

----------------------------------------------------------------------------
\* C36: after a successful publish the read of the requirer returns the fields of
\* that publish only: a publish without sd (in fiveg_rf_config, without
\* rfsim_address) is read back with that field absent, whatever an earlier publish
\* had written into the data bag.
C36_NoStaleOptional ==
    [][(returned'.call \in PublishCalls /\ returned'.result = "None") =>
          /\ returned'.call = "set_rfsim_information" =>
                 (returned'.args.sd = None
                      => get_provider_rfsim_information(relation').sd = None)
          /\ returned'.call = "set_rf_config_information" =>
                 LET r == get_provider_rf_config_information(relation')
                 IN r /= None =>
                        /\ returned'.args.sd = None => r[1].sd = None
                        /\ returned'.args.rfsim_address = None
                               => r[1].rfsim_address = None]_vars

----------------------------------------------------------------------------
----------------------------------------------------------------------------
====
